---- MODULE Spec2Model ----
(***************************************************************************)
(* Vector index snapshot subsystem of dingo-store.                         *)
(*                                                                         *)
(* One store node is modelled: its snapshot registry                       *)
(* (VectorIndexSnapshotManager::snapshot_maps_), the snapshot directories  *)
(* on its disk, the file reader registry, one in-memory VectorIndex object *)
(* for index 1, the WAL truncate index, and the threads that run           *)
(* SaveVectorIndexSnapshot, DownloadSnapshotFile and LaunchInstallSnapshot *)
(* against them.  Every action is one atomic step of a handler; the steps  *)
(* are cut where another thread can observe or change shared state.        *)
(***************************************************************************)
EXTENDS Integers, Sequences, FiniteSets, TLC

\* ------------------------------------------------------------------ bounds
\* Greatest apply_log_index / snapshot log id of a behaviour.
MaxApply == 2
\* Number of operations (handler calls and index writes) of a behaviour.
MaxCalls == 3
\* Number of RebuildVectorIndex calls of a behaviour.
MaxRebuilds == 2
\* Last index the raft log of the region reaches.
MaxWal == 2
\* Number of regions given to ParallelLoadOrBuildVectorIndex.
MaxRegions == 2
\* Greatest concurrency given to ParallelLoadOrBuildVectorIndex.
MaxConcurrency == 2
\* Number of log entries of a replayed raft log.
MaxEntries == 2
\* Number of vectors the replay loop collects before it flushes them (the
\* code's 10000, scaled so that a log of MaxEntries entries crosses it).
BatchSize == 2

\* ------------------------------------------------------------------ names
SaveProcs == {"s1", "s2"}
DownloadProcs == {"d1"}
\* Threads that serve InstallVectorIndexSnapshot requests of peers on this node.
InstallReceiveProcs == {"d1", "d2"}
InstallProcs == {"i1"}
\* The thread that runs PullLastSnapshotFromPeers.
PullProc == "pl"
Procs == SaveProcs \cup DownloadProcs \cup InstallReceiveProcs \cup InstallProcs
           \cup {PullProc}

\* Threads that run RebuildVectorIndex for the region.
RebuildProcs == {"r1", "r2"}
NoIndex == 0

\* raft_node->ListPeers, in its order, and raft_node->GetPeerId.
Peers == <<"n1", "n2", "n3">>
self_peer == "n1"
OtherPeers == {Peers[i] : i \in 1..Len(Peers)} \ {self_peer}
NoEndpoint == "none"

\* The index the threads work on, and a second region known to bootstrap only.
Idx == 1
OtherIdx == 2
IndexIds == {Idx, OtherIdx}

NoMeta == 0
NoLock == "free"
NoPath == <<0, "none", 0>>

\* Directory <index_root>/<index_id>/snapshot_<020d log id>
GetSnapshotNewPath(i, l) == <<i, "snapshot", l>>
\* Directory <index_root>/<index_id>/tmp_<timestamp ns>
GetSnapshotTmpPath(i, t) == <<i, "tmp", t>>
\* A directory entry whose name is neither of the two.
StrayPath(i) == <<i, "corrupt", 0>>

IsSnapshotName(path) == path[2] = "snapshot"
IsTmpName(path) == path[2] = "tmp"

VARIABLES
  phase,               \* "boot" | "run" | "failed": VectorIndexSnapshotManager::Init
  dirs,                \* directories on disk
  metas,               \* every SnapshotMeta object ever constructed: [idx, log, path]
  registry,            \* snapshot_maps_: the SnapshotMeta objects registered
  readers,             \* FileServiceReaderManager: set of [id, meta]
  next_reader_id,      \* next reader id AddReader hands out
  clock,               \* Helper::TimestampNs, as read by GetSnapshotTmpPath
  apply_log_index,     \* VectorIndex::apply_log_index
  snapshot_log_index,  \* VectorIndex::snapshot_log_index
  snapshot_doing,      \* VectorIndex::snapshot_doing
  write_lock,          \* holder of the index write lock, or NoLock
  truncate_log_index,  \* LogStorage vector index truncate log index
  pc,                  \* position of each thread in its handler
  local_apply,         \* apply_log_index local of Save / meta.snapshot_log_index of Download
  tmp_snapshot_path,   \* local tmp_snapshot_path
  stale_snapshots,     \* local stale_snapshots
  new_snapshot,        \* local new_snapshot / last_snapshot (a shared_ptr)
  reader_id,           \* local reader_id of LaunchInstallSnapshot
  exit,                \* exit path of the last call of each thread
  out_log,             \* snapshot_log_index out-parameter of the last Save call
  fork_apply,          \* apply_log_index of the index at the instant of the last fork
  unlocks,             \* UnlockWrite calls of the current / last Save call
  admitted,            \* log ids admitted by Save calls, in order of admission
  calls,               \* operations started
  server_host_port,    \* server.host / server.port of the configuration: "set" | "missing"
  peer_snapshot,       \* per peer: log id of its last snapshot, 0 when it has none
  peer_up,             \* per peer: it answers RPCs
  peer_readers,        \* per peer: reader ids its HandlePullSnapshot registered
  peer_next_reader_id, \* per peer: next reader id of its FileServiceReaderManager
  pull_pc,             \* position of PullLastSnapshotFromPeers
  pull_todo,           \* peers the probe loop has not visited
  max_snapshot_log_index, \* local max_snapshot_log_index of the probe loop
  endpoint,            \* local endpoint of the probe loop
  advertised,          \* per peer: snapshot_log_index of its probe response, 0 when skipped
  response,            \* GetVectorIndexSnapshotResponse of LaunchPullSnapshot: [log, reader_id]
  pull_status,         \* status PullLastSnapshotFromPeers returned
  followers_pc,        \* position of InstallSnapshotToFollowers
  followers_todo,      \* peers the install loop has not visited
  followers_log,       \* log level of the line written for each peer that failed
  followers_status,    \* status InstallSnapshotToFollowers returned
  vector_indexs,       \* VectorIndexManager::vector_indexs_ entry of the region: object id, 0 when absent
  vi_status,           \* VectorIndex::status of every VectorIndex object constructed
  vi_apply,            \* VectorIndex::apply_log_index of every VectorIndex object constructed
  wal_last,            \* last log index of the region's raft log
  apply_log_id_key,    \* value stored under GenApplyLogIdKey, 0 when absent
  is_switching,        \* Region::is_switching_vector_index
  rb_pc,               \* position of each RebuildVectorIndex call
  online_vector_index, \* local online_vector_index of RebuildVectorIndex
  vector_index,        \* local vector_index of RebuildVectorIndex (the new object)
  rb_x,                \* last WAL index when the catch-up round of the call started
  rb_exit,             \* exit path of the last RebuildVectorIndex call of each thread
  rebuilds,            \* RebuildVectorIndex calls started
  replay_in,           \* arguments of a ReplayWalToVectorIndex call: [wal, start_log_id, content, apply]
  replay_out,          \* index after the call: [content, apply], NoReplay before it
  load_pc,             \* position of the LoadOrBuildVectorIndex call
  load,                \* locals of the LoadOrBuildVectorIndex call, see NoLoad
  par_pc,              \* position of the ParallelLoadOrBuildVectorIndex call
  par_status,          \* status ParallelLoadOrBuildVectorIndex returned
  param_regions,       \* Parameter::regions: [has_index, load_ok] of every region
  param_offset,        \* Parameter::offset
  param_results,       \* Parameter::results
  task_pc,             \* position of every worker task
  task_offset,         \* local offset of every worker task
  scrub_pc,            \* position of the ScrubVectorIndex() sweep
  scrub_regions,       \* alive regions of the sweep: [has_index, status, need_rebuild, need_save]
  scrub_offset,        \* regions the sweep has visited
  scrub_calls,         \* calls the sweep made: <<region, "rebuild" or "save">>
  uri,                 \* uri argument of DownloadSnapshotFile, a sequence of characters
  uri_pc,              \* position of the uri check of DownloadSnapshotFile
  uri_parsed,          \* locals reader_id and endpoint of DownloadSnapshotFile
  sv_pc,               \* position of the SaveVectorIndex call
  sv_vector_index,     \* argument vector_index of SaveVectorIndex: the object it holds
  sv_writer,           \* status SaveVectorIndexSnapshot returned to SaveVectorIndex
  sv_status,           \* status SaveVectorIndex returned
  sv_calls,            \* SaveVectorIndex calls started
  ck_file,             \* the file of the snapshot as the serving peer holds it
  ck_eof,              \* how the serving peer sets eof: "at_end" | "short_read"
  ck_pc,               \* position of the chunk loop of DownloadSnapshotFile
  ck_offset,           \* local offset of the chunk loop
  ck_ofile,            \* the local file ofile writes
  ar_pc                \* position of the bthread AsyncRebuildVectorIndex started

vars == <<phase, dirs, metas, registry, readers, next_reader_id, clock,
          apply_log_index, snapshot_log_index, snapshot_doing, write_lock,
          truncate_log_index, pc, local_apply, tmp_snapshot_path, stale_snapshots,
          new_snapshot, reader_id, exit, out_log, fork_apply, unlocks, admitted,
          calls, server_host_port,
          peer_snapshot, peer_up, peer_readers, peer_next_reader_id, pull_pc,
          pull_todo, max_snapshot_log_index, endpoint, advertised, response,
          pull_status, followers_pc, followers_todo, followers_log, followers_status,
          vector_indexs, vi_status, vi_apply, wal_last, apply_log_id_key, is_switching,
          rb_pc, online_vector_index, vector_index, rb_x, rb_exit, rebuilds,
          replay_in, replay_out, load_pc, load,
          par_pc, par_status, param_regions, param_offset, param_results, task_pc,
          task_offset, scrub_pc, scrub_regions, scrub_offset, scrub_calls,
          uri, uri_pc, uri_parsed,
          sv_pc, sv_vector_index, sv_writer, sv_status, sv_calls,
          ck_file, ck_eof, ck_pc, ck_offset, ck_ofile, ar_pc>>

peerVars == <<peer_snapshot, peer_up, peer_readers, peer_next_reader_id>>
pullVars == <<pull_pc, pull_todo, max_snapshot_log_index, endpoint, advertised, response,
              pull_status>>
followersVars == <<followers_pc, followers_todo, followers_log, followers_status>>

rebuildVars == <<vector_indexs, vi_status, vi_apply, wal_last, apply_log_id_key,
                 is_switching, rb_pc, online_vector_index, vector_index, rb_x, rb_exit,
                 rebuilds>>

\* The variables of the calls that are checked on their own, one function at a
\* time.
replayVars == <<replay_in, replay_out>>
loadVars == <<load_pc, load>>
parallelVars == <<par_pc, par_status, param_regions, param_offset, param_results,
                  task_pc, task_offset>>
scrubVars == <<scrub_pc, scrub_regions, scrub_offset, scrub_calls>>
uriVars == <<uri, uri_pc, uri_parsed>>
saveVars == <<sv_pc, sv_vector_index, sv_writer, sv_status, sv_calls>>
chunkVars == <<ck_file, ck_eof, ck_pc, ck_offset, ck_ofile>>
asyncVars == <<ar_pc>>
unitVars == <<replayVars, loadVars, parallelVars, scrubVars, uriVars, saveVars, chunkVars,
              asyncVars>>

\* The variables the snapshot handlers of one node do not write.
otherVars == <<server_host_port, peerVars, pullVars, followersVars, rebuildVars,
               unitVars>>

indexVars == <<apply_log_index, snapshot_log_index, snapshot_doing, write_lock>>
localVars == <<local_apply, tmp_snapshot_path, stale_snapshots, new_snapshot, reader_id,
               out_log, fork_apply, unlocks>>

\* ------------------------------------------------------------------ helpers
Max(S) == CHOOSE x \in S : \A y \in S : y <= x

MetaIds == 1..Len(metas)

\* SnapshotMeta::Init: parse "snapshot_%020ld" from the last path component.
SnapshotMetaInit(path) ==
  IF IsSnapshotName(path) THEN [ok |-> TRUE, log |-> path[3]]
                          ELSE [ok |-> FALSE, log |-> 0]

\* SnapshotMeta::New + Init: the object constructed over path.
NewSnapshotMeta(i, path) == [idx |-> i, log |-> SnapshotMetaInit(path).log, path |-> path]

\* Objects of index i in a registry content reg.
OfIndex(reg, i) == {m \in reg : metas[m].idx = i}

\* VectorIndexSnapshotManager::GetSnapshots
GetSnapshots(reg, i) == OfIndex(reg, i)

\* VectorIndexSnapshotManager::GetLastSnapshot: rbegin() of the inner map
GetLastSnapshot(reg, i) ==
  IF OfIndex(reg, i) = {} THEN NoMeta
  ELSE CHOOSE m \in OfIndex(reg, i) : \A n \in OfIndex(reg, i) : metas[n].log <= metas[m].log

\* IsExistSnapshot comparing with < where the code compares with <=.
IsExistSnapshot_Strict(reg, i, l) ==
  LET snapshot == GetLastSnapshot(reg, i)
  IN  IF snapshot = NoMeta THEN FALSE ELSE l < metas[snapshot].log

\* VectorIndexSnapshotManager::IsExistSnapshot
IsExistSnapshot(reg, i, l) ==
  LET snapshot == GetLastSnapshot(reg, i)
  IN  IF snapshot = NoMeta THEN FALSE ELSE l <= metas[snapshot].log

\* AddSnapshot without the lookup of the key.
AddSnapshot_NoLookup(ms, reg, m) == [reg |-> reg \cup {m}, ok |-> TRUE]

\* VectorIndexSnapshotManager::AddSnapshot of object m (of the objects ms) into
\* the registry content reg: the registry afterwards and the value returned.
AddSnapshot(ms, reg, m) ==
  IF \E n \in reg : ms[n].idx = ms[m].idx /\ ms[n].log = ms[m].log
    THEN [reg |-> reg, ok |-> FALSE]
    ELSE [reg |-> reg \cup {m}, ok |-> TRUE]

\* VectorIndexSnapshotManager::DeleteSnapshot: erase by (index id, log id)
DeleteSnapshot(reg, m) ==
  {n \in reg : ~(metas[n].idx = metas[m].idx /\ metas[n].log = metas[m].log)}

RECURSIVE DeleteAll(_, _)
DeleteAll(reg, S) ==
  IF S = {} THEN reg
  ELSE LET m == CHOOSE x \in S : TRUE IN DeleteAll(DeleteSnapshot(reg, m), S \ {m})

\* tmp directory preparation of Save and Download
PrepareTmp(ds, path) == IF path \in ds THEN ds \ {path} ELSE ds \cup {path}

\* Every SnapshotMeta object some shared_ptr refers to.
Held ==
  registry \cup {r.meta : r \in readers}
           \cup UNION {stale_snapshots[p] : p \in Procs}
           \cup ({new_snapshot[p] : p \in Procs} \ {NoMeta})

\* SnapshotMeta::~SnapshotMeta: objects whose last reference goes away in this
\* step have their directory removed from the directories base.
Destroyed == {m \in 1..Len(metas') : m \notin Held' /\ (m \in Held \/ m > Len(metas))}
Destruct(base) == dirs' = base \ {metas'[m].path : m \in Destroyed}

\* Status a call returns on each exit path.
StatusOf(e) ==
  CASE e = "success" -> "OK"
    [] e = "exist" -> "OK"
    [] e = "busy" -> "EINTERNAL"
    [] e = "pipe" -> "EINTERNAL"
    [] e = "fork" -> "EINTERNAL"
    [] e = "child_crash" -> "EINTERNAL"
    [] e = "child_err" -> "CHILD_ERRCODE"
    [] e = "meta_open" -> "EINTERNAL"
    [] e = "rename" -> "RENAME_ERROR"
    [] e = "init" -> "EINTERNAL"
    [] e = "add_collision" -> "EVECTOR_SNAPSHOT_EXIST"
    [] e = "already" -> "EVECTOR_SNAPSHOT_EXIST"
    [] e = "uri" -> "EINTERNAL"
    [] e = "copier" -> "EINTERNAL"
    [] e = "chunk" -> "EINTERNAL"
    [] e = "not_found" -> "EVECTOR_SNAPSHOT_NOT_FOUND"
    [] e = "rpc" -> "RPC_STATUS"
    [] e = "illegal" -> "EILLEGAL_PARAMTETERS"
    [] OTHER -> "NONE"

\* ------------------------------------------------------------------ initial state
\* The snapshot manager, the index and the handler threads before bootstrap.
InitManager ==
  /\ phase = "boot"
  /\ metas = <<>>
  /\ registry = {}
  /\ readers = {}
  /\ next_reader_id = 1
  /\ clock = 1
  /\ apply_log_index \in {0, 1}
  /\ snapshot_log_index = 0
  /\ snapshot_doing = FALSE
  /\ write_lock = NoLock
  /\ truncate_log_index = 0
  /\ pc = [p \in Procs |-> "idle"]
  /\ local_apply = [p \in Procs |-> 0]
  /\ tmp_snapshot_path = [p \in Procs |-> NoPath]
  /\ stale_snapshots = [p \in Procs |-> {}]
  /\ new_snapshot = [p \in Procs |-> NoMeta]
  /\ reader_id = [p \in Procs |-> 0]
  /\ exit = [p \in Procs |-> "none"]
  /\ out_log = [p \in Procs |-> 0]
  /\ fork_apply = [p \in Procs |-> 0]
  /\ unlocks = [p \in Procs |-> 0]
  /\ admitted = <<>>
  /\ calls = 0

\* Directories a previous run of the store can have left on disk.
BootDisks ==
  { {},
    {GetSnapshotNewPath(Idx, 1), GetSnapshotNewPath(OtherIdx, 1)},
    {GetSnapshotNewPath(Idx, 1), GetSnapshotNewPath(Idx, 2), GetSnapshotTmpPath(Idx, 0)},
    {GetSnapshotNewPath(Idx, 2), StrayPath(Idx)} }

InitSnapshot ==
  /\ dirs \in BootDisks
  /\ InitManager

\* A disk on which an earlier run left a tmp directory whose timestamp is the
\* one the first call of this run draws.
TmpDisks == {{GetSnapshotTmpPath(Idx, 1)},
             {GetSnapshotNewPath(Idx, 1), GetSnapshotTmpPath(Idx, 1)}}

\* No ReplayWalToVectorIndex call that is checked on its own.
NoReplay == [content |-> <<>>, apply |-> -1]
InitNoReplay ==
  /\ replay_in = "none"
  /\ replay_out = NoReplay

\* No LoadOrBuildVectorIndex call yet.  online_vector_index and
\* new_vector_index are object ids; last_snapshot is the log id of the snapshot
\* LoadVectorIndexSnapshot loaded, 0 when it returned nullptr;
\* snapshot_log_index is the field of the new object; replayed and scanned tell
\* whether ReplayWalToVectorIndex returned OK and whether BuildVectorIndex
\* scanned the store; status is the status returned.
NoLoad == [online_vector_index |-> NoIndex, new_vector_index |-> NoIndex,
           last_snapshot |-> 0, snapshot_log_index |-> 0, replayed |-> FALSE,
           scanned |-> FALSE, status |-> "NONE"]
InitNoLoad ==
  /\ load_pc = "idle"
  /\ load = NoLoad

\* The worker tasks ParallelRunTask can create.
Workers == 1..MaxConcurrency

\* No ParallelLoadOrBuildVectorIndex call yet.
InitNoParallel ==
  /\ par_pc = "idle"
  /\ par_status = "NONE"
  /\ param_regions = <<>>
  /\ param_offset = 0
  /\ param_results = <<>>
  /\ task_pc = [w \in Workers |-> "none"]
  /\ task_offset = [w \in Workers |-> 0]

\* No ScrubVectorIndex sweep yet.
InitNoScrub ==
  /\ scrub_pc = "idle"
  /\ scrub_regions = <<>>
  /\ scrub_offset = 0
  /\ scrub_calls = <<>>

\* butil::EndPoint(): ip 0.0.0.0, port 0.
ZeroEndPoint == [ip |-> "0.0.0.0", port |-> 0]

\* No uri is parsed.
InitNoUri ==
  /\ uri = <<>>
  /\ uri_pc = "idle"
  /\ uri_parsed = [reader_id |-> 0, endpoint |-> ZeroEndPoint]

\* No SaveVectorIndex call.
InitNoSave ==
  /\ sv_pc = "idle"
  /\ sv_vector_index = NoIndex
  /\ sv_writer = "NONE"
  /\ sv_status = "NONE"
  /\ sv_calls = 0

\* No file is transferred.
InitNoChunk ==
  /\ ck_file = <<>>
  /\ ck_eof = "at_end"
  /\ ck_pc = "idle"
  /\ ck_offset = 0
  /\ ck_ofile = <<>>

\* No AsyncRebuildVectorIndex call.
InitNoAsync == ar_pc = "idle"

\* No call that is checked on its own.
InitUnit ==
  /\ InitNoReplay
  /\ InitNoLoad
  /\ InitNoParallel
  /\ InitNoScrub
  /\ InitNoUri
  /\ InitNoSave
  /\ InitNoChunk
  /\ InitNoAsync

\* No PullLastSnapshotFromPeers and no InstallSnapshotToFollowers call yet.
InitPull ==
  /\ peer_readers = [q \in OtherPeers |-> {}]
  /\ peer_next_reader_id = [q \in OtherPeers |-> 1]
  /\ pull_pc = "idle"
  /\ pull_todo = <<>>
  /\ max_snapshot_log_index = 0
  /\ endpoint = NoEndpoint
  /\ advertised = [q \in OtherPeers |-> 0]
  /\ response = [log |-> 0, reader_id |-> 0]
  /\ pull_status = "NONE"
  /\ followers_pc = "idle"
  /\ followers_todo = <<>>
  /\ followers_log = <<>>
  /\ followers_status = "NONE"

\* No RebuildVectorIndex call yet; rebuild_init gives the live map, the WAL and
\* the objects: [live, status, apply, wal].
InitRebuild(rebuild_init) ==
  /\ vector_indexs = rebuild_init.live
  /\ vi_status = rebuild_init.status
  /\ vi_apply = rebuild_init.apply
  /\ wal_last = rebuild_init.wal
  /\ apply_log_id_key = 0
  /\ is_switching = FALSE
  /\ rb_pc = [p \in RebuildProcs |-> "idle"]
  /\ online_vector_index = [p \in RebuildProcs |-> NoIndex]
  /\ vector_index = [p \in RebuildProcs |-> NoIndex]
  /\ rb_x = [p \in RebuildProcs |-> 0]
  /\ rb_exit = [p \in RebuildProcs |-> "none"]
  /\ rebuilds = 0

\* Peers that hold no snapshot, a region without vector index.
InitNoPeers ==
  /\ InitPull
  /\ InitUnit
  /\ InitRebuild([live |-> NoIndex, status |-> <<>>, apply |-> <<>>, wal |-> 0])
  /\ peer_snapshot = [q \in OtherPeers |-> 0]
  /\ peer_up = [q \in OtherPeers |-> TRUE]

\* The node as conf/store.yaml configures it: server.host and server.port set.
Init ==
  /\ InitSnapshot
  /\ server_host_port = "set"
  /\ InitNoPeers

\* The same node on a disk with a left-over tmp directory.
InitTmp ==
  /\ dirs \in TmpDisks
  /\ InitManager
  /\ server_host_port = "set"
  /\ InitNoPeers

\* ------------------------------------------------------------------ bootstrap
\* Order of std::sort(..., std::greater<>()) on the file names: snapshot_<log>
\* names by descending log id, before any name that sorts below "snapshot_".
FileRank(path) == IF IsSnapshotName(path) THEN path[3] + 1 ELSE 0

RECURSIVE SortDesc(_)
SortDesc(S) ==
  IF S = {} THEN <<>>
  ELSE LET top == CHOOSE x \in S : \A y \in S : FileRank(y) <= FileRank(x)
       IN  <<top>> \o SortDesc(S \ {top})

\* GetSnapshotPaths: every entry of the index's directory except the tmp ones.
GetSnapshotPaths(ds, i) == SortDesc({d \in ds : d[1] = i /\ ~IsTmpName(d)})

\* The loops of VectorIndexSnapshotManager::Init over the paths still to visit.
RECURSIVE InitScan(_, _, _)
InitScan(paths, ms, reg) ==
  IF paths = <<>> THEN [ms |-> ms, reg |-> reg, ok |-> TRUE]
  ELSE LET path == Head(paths)
           ms2 == Append(ms, NewSnapshotMeta(path[1], path))
       IN  IF ~SnapshotMetaInit(path).ok
             THEN [ms |-> ms2, reg |-> reg, ok |-> FALSE]
             ELSE InitScan(Tail(paths), ms2, AddSnapshot(ms2, reg, Len(ms2)).reg)

\* VectorIndexSnapshotManager::Init
ManagerInit ==
  /\ phase = "boot"
  /\ LET r == InitScan(GetSnapshotPaths(dirs, Idx) \o GetSnapshotPaths(dirs, OtherIdx),
                       metas, registry)
     IN  /\ metas' = r.ms
         /\ registry' = r.reg
         /\ phase' = IF r.ok THEN "run" ELSE "failed"
  /\ UNCHANGED <<readers, next_reader_id, clock, indexVars, truncate_log_index, pc,
                 localVars, exit, admitted, calls>>
  /\ Destruct(dirs)
  /\ UNCHANGED otherVars

\* ------------------------------------------------------------------ index writes
\* A raft apply on the index: takes the write lock, applies one log entry.
IndexWrite ==
  /\ phase = "run"
  /\ write_lock = NoLock
  /\ apply_log_index < MaxApply /\ calls < MaxCalls
  /\ apply_log_index' = apply_log_index + 1
  /\ calls' = calls + 1
  /\ UNCHANGED <<phase, dirs, metas, registry, readers, next_reader_id, clock,
                 snapshot_log_index, snapshot_doing, write_lock, truncate_log_index, pc,
                 localVars, exit, admitted>>
  /\ UNCHANGED otherVars

\* ------------------------------------------------------------------ SaveVectorIndexSnapshot
\* VectorIndex::SnapshotDoing
SnapshotDoing == snapshot_doing

\* A return of a handler: its locals go out of scope.
Return(p, e) ==
  /\ pc' = [pc EXCEPT ![p] = "idle"]
  /\ exit' = [exit EXCEPT ![p] = e]
  /\ stale_snapshots' = [stale_snapshots EXCEPT ![p] = {}]
  /\ new_snapshot' = [new_snapshot EXCEPT ![p] = NoMeta]
  /\ local_apply' = [local_apply EXCEPT ![p] = 0]
  /\ tmp_snapshot_path' = [tmp_snapshot_path EXCEPT ![p] = NoPath]
  /\ reader_id' = [reader_id EXCEPT ![p] = 0]

\* ON_SCOPE_EXIT of SaveVectorIndexSnapshot: SetSnapshotLogIndex(false)
ScopeExit == snapshot_log_index' = 0

\* VectorIndex::UnlockWrite by thread p
UnlockWrite(p) ==
  /\ write_lock' = NoLock
  /\ unlocks' = [unlocks EXCEPT ![p] = @ + 1]

\* Lines 529-534: the busy guard, then SetSnapshotLogIndex(true).
Save_Guard(p) ==
  /\ phase = "run" /\ pc[p] = "idle" /\ calls < MaxCalls
  /\ calls' = calls + 1
  /\ unlocks' = [unlocks EXCEPT ![p] = 0]
  /\ out_log' = [out_log EXCEPT ![p] = 0]
  /\ IF SnapshotDoing
       THEN /\ exit' = [exit EXCEPT ![p] = "busy"]
            /\ UNCHANGED <<pc, snapshot_log_index>>
       ELSE /\ snapshot_log_index' = 1
            /\ pc' = [pc EXCEPT ![p] = "lock"]
            /\ exit' = [exit EXCEPT ![p] = "running"]
  /\ UNCHANGED <<phase, dirs, metas, registry, readers, next_reader_id, clock,
                 apply_log_index, snapshot_doing, write_lock, truncate_log_index,
                 local_apply, tmp_snapshot_path, stale_snapshots, new_snapshot,
                 reader_id, fork_apply, admitted>>
  /\ UNCHANGED otherVars

\* Save reading ApplyLogIndex without LockWrite.
Save_LockWrite_NoLock(p) ==
  /\ pc[p] = "lock"
  /\ local_apply' = [local_apply EXCEPT ![p] = apply_log_index]
  /\ pc' = [pc EXCEPT ![p] = "exist"]
  /\ UNCHANGED <<phase, dirs, metas, registry, readers, next_reader_id, clock,
                 indexVars, truncate_log_index, tmp_snapshot_path, stale_snapshots,
                 new_snapshot, reader_id, exit, out_log, fork_apply, unlocks, admitted,
                 calls>>
  /\ UNCHANGED otherVars

\* Lines 540-542: LockWrite, then read ApplyLogIndex.
Save_LockWrite(p) ==
  /\ pc[p] = "lock"
  /\ write_lock = NoLock
  /\ write_lock' = p
  /\ local_apply' = [local_apply EXCEPT ![p] = apply_log_index]
  /\ pc' = [pc EXCEPT ![p] = "exist"]
  /\ UNCHANGED <<phase, dirs, metas, registry, readers, next_reader_id, clock,
                 apply_log_index, snapshot_log_index, snapshot_doing,
                 truncate_log_index, tmp_snapshot_path, stale_snapshots, new_snapshot,
                 reader_id, exit, out_log, fork_apply, unlocks, admitted, calls>>
  /\ UNCHANGED otherVars

\* The early return of Save without the UnlockWrite of line 549.
Save_AlreadyExist_KeepLock(p) ==
  /\ pc[p] = "exist"
  /\ IsExistSnapshot(registry, Idx, local_apply[p])
  /\ out_log' = [out_log EXCEPT ![p] = local_apply[p]]
  /\ UNCHANGED <<write_lock, unlocks>>
  /\ Return(p, "exist")
  /\ ScopeExit
  /\ UNCHANGED <<phase, metas, registry, readers, next_reader_id, clock,
                 apply_log_index, snapshot_doing, truncate_log_index, fork_apply,
                 admitted, calls>>
  /\ Destruct(dirs)
  /\ UNCHANGED otherVars

\* The early return of Save, telling the WAL to truncate on its way.
Save_AlreadyExist_Truncate(p) ==
  /\ pc[p] = "exist"
  /\ IsExistSnapshot(registry, Idx, local_apply[p])
  /\ out_log' = [out_log EXCEPT ![p] = local_apply[p]]
  /\ truncate_log_index' = local_apply[p]
  /\ UnlockWrite(p)
  /\ Return(p, "exist")
  /\ ScopeExit
  /\ UNCHANGED <<phase, metas, registry, readers, next_reader_id, clock,
                 apply_log_index, snapshot_doing, fork_apply, admitted, calls>>
  /\ Destruct(dirs)
  /\ UNCHANGED otherVars

\* Lines 546-556: a snapshot at or above apply_log_index exists, give up.
Save_AlreadyExist(p) ==
  /\ pc[p] = "exist"
  /\ IsExistSnapshot(registry, Idx, local_apply[p])
  /\ out_log' = [out_log EXCEPT ![p] = local_apply[p]]
  /\ UnlockWrite(p)
  /\ Return(p, "exist")
  /\ ScopeExit
  /\ UNCHANGED <<phase, metas, registry, readers, next_reader_id, clock,
                 apply_log_index, snapshot_doing, truncate_log_index, fork_apply,
                 admitted, calls>>
  /\ Destruct(dirs)
  /\ UNCHANGED otherVars

\* Lines 558-564: the tmp directory.
Save_PrepareTmp(p) ==
  /\ pc[p] = "exist"
  /\ ~IsExistSnapshot(registry, Idx, local_apply[p])
  /\ LET tmp == GetSnapshotTmpPath(Idx, clock)
     IN  /\ tmp_snapshot_path' = [tmp_snapshot_path EXCEPT ![p] = tmp]
         /\ dirs' = PrepareTmp(dirs, tmp)
  /\ clock' = clock + 1
  /\ pc' = [pc EXCEPT ![p] = "fork"]
  /\ UNCHANGED <<phase, metas, registry, readers, next_reader_id, indexVars,
                 truncate_log_index, local_apply, stale_snapshots, new_snapshot,
                 reader_id, exit, out_log, fork_apply, unlocks, admitted, calls>>
  /\ UNCHANGED otherVars

\* An error return of Save that removes the tmp directory (or not) on its way.
SaveFail(p, e, unlock, remove_tmp) ==
  /\ IF unlock THEN UnlockWrite(p) ELSE UNCHANGED <<write_lock, unlocks>>
  /\ Return(p, e)
  /\ ScopeExit
  /\ UNCHANGED <<phase, metas, registry, readers, next_reader_id, clock,
                 apply_log_index, snapshot_doing, truncate_log_index, out_log,
                 fork_apply, admitted, calls>>
  /\ Destruct(IF remove_tmp THEN dirs \ {tmp_snapshot_path[p]} ELSE dirs)
  /\ UNCHANGED otherVars

\* The pipe() failure path without its UnlockWrite.
Save_PipeFail_NoUnlock(p) ==
  /\ pc[p] = "fork"
  /\ SaveFail(p, "pipe", FALSE, TRUE)

\* Lines 576-585: pipe() fails.
Save_PipeFail(p) ==
  /\ pc[p] = "fork"
  /\ SaveFail(p, "pipe", TRUE, TRUE)

\* The fork() failure path without the removal of the tmp directory.
Save_ForkFail_KeepTmp(p) ==
  /\ pc[p] = "fork"
  /\ SaveFail(p, "fork", TRUE, FALSE)

\* Lines 587-596: fork() fails.
Save_ForkFail(p) ==
  /\ pc[p] = "fork"
  /\ SaveFail(p, "fork", TRUE, TRUE)

\* Lines 587, 628-633: fork() returns in the parent, which unlocks.
Save_Fork(p) ==
  /\ pc[p] = "fork"
  /\ fork_apply' = [fork_apply EXCEPT ![p] = apply_log_index]
  /\ UnlockWrite(p)
  /\ pc' = [pc EXCEPT ![p] = "wait"]
  /\ UNCHANGED <<phase, dirs, metas, registry, readers, next_reader_id, clock,
                 apply_log_index, snapshot_log_index, snapshot_doing,
                 truncate_log_index, local_apply, tmp_snapshot_path, stale_snapshots,
                 new_snapshot, reader_id, exit, out_log, admitted, calls>>
  /\ UNCHANGED otherVars

\* Lines 597-627, 636-658: the child saved the index and reported OK.
Save_WaitChild(p) ==
  /\ pc[p] = "wait"
  /\ pc' = [pc EXCEPT ![p] = "rename"]
  /\ UNCHANGED <<phase, dirs, metas, registry, readers, next_reader_id, clock,
                 indexVars, truncate_log_index, localVars, exit, admitted, calls>>
  /\ UNCHANGED otherVars

\* The child-errcode path without the removal of the tmp directory.
Save_ChildError_KeepTmp(p) ==
  /\ pc[p] = "wait"
  /\ SaveFail(p, "child_err", FALSE, FALSE)

\* Lines 647-653: the child reported an errcode other than OK.
Save_ChildError(p) ==
  /\ pc[p] = "wait"
  /\ SaveFail(p, "child_err", FALSE, TRUE)

\* Lines 660-667: the child did not exit with status 0.
Save_ChildCrash(p) ==
  /\ pc[p] = "wait"
  /\ SaveFail(p, "child_crash", FALSE, TRUE)

\* Lines 670-678: the meta file cannot be opened.
Save_MetaOpenFail(p) ==
  /\ pc[p] = "rename"
  /\ SaveFail(p, "meta_open", FALSE, FALSE)

\* Lines 683-691: Helper::Rename fails.
Save_RenameFail(p) ==
  /\ pc[p] = "rename"
  /\ SaveFail(p, "rename", FALSE, FALSE)

\* Lines 680-685: meta written, tmp renamed to snapshot_<apply_log_index>.
\* Helper::Rename either fails (Save_RenameFail) or leaves the directory under
\* the new name, whether or not a directory of that name was there before; it
\* fails when nothing is under the tmp path.
Save_Rename(p) ==
  /\ pc[p] = "rename"
  /\ tmp_snapshot_path[p] \in dirs
  /\ dirs' = (dirs \ {tmp_snapshot_path[p]}) \cup {GetSnapshotNewPath(Idx, local_apply[p])}
  /\ pc' = [pc EXCEPT ![p] = "stale"]
  /\ UNCHANGED <<phase, metas, registry, readers, next_reader_id, clock, indexVars,
                 truncate_log_index, localVars, exit, admitted, calls>>
  /\ UNCHANGED otherVars

\* Lines 693-699: GetSnapshots, SnapshotMeta::New, Init.
Save_GetStale(p) ==
  /\ pc[p] = "stale"
  /\ LET path == GetSnapshotNewPath(Idx, local_apply[p])
     IN  /\ metas' = Append(metas, NewSnapshotMeta(Idx, path))
         /\ IF SnapshotMetaInit(path).ok
              THEN /\ stale_snapshots' = [stale_snapshots EXCEPT ![p] = GetSnapshots(registry, Idx)]
                   /\ new_snapshot' = [new_snapshot EXCEPT ![p] = Len(metas')]
                   /\ pc' = [pc EXCEPT ![p] = "add"]
                   /\ UNCHANGED <<local_apply, tmp_snapshot_path, reader_id, exit,
                                  snapshot_log_index>>
              ELSE /\ Return(p, "init")
                   /\ ScopeExit
  /\ UNCHANGED <<phase, registry, readers, next_reader_id, clock, apply_log_index,
                 snapshot_doing, write_lock, truncate_log_index, out_log, fork_apply,
                 unlocks, admitted,
                 calls>>
  /\ Destruct(dirs)
  /\ UNCHANGED otherVars

\* Lines 701-704: AddSnapshot.
Save_AddSnapshot(p) ==
  /\ pc[p] = "add"
  /\ LET r == AddSnapshot(metas, registry, new_snapshot[p])
     IN  /\ registry' = r.reg
         /\ IF r.ok
              THEN /\ admitted' = Append(admitted, metas[new_snapshot[p]].log)
                   /\ pc' = [pc EXCEPT ![p] = "finish"]
                   /\ UNCHANGED <<local_apply, tmp_snapshot_path, reader_id, exit,
                                  stale_snapshots, new_snapshot, snapshot_log_index>>
              ELSE /\ Return(p, "add_collision")
                   /\ ScopeExit
                   /\ UNCHANGED admitted
  /\ UNCHANGED <<phase, metas, readers, next_reader_id, clock, apply_log_index,
                 snapshot_doing, write_lock, truncate_log_index, out_log, fork_apply,
                 unlocks, calls>>
  /\ Destruct(dirs)
  /\ UNCHANGED otherVars

\* The end of Save without the stale rotation.
Save_Finish_NoRotation(p) ==
  /\ pc[p] = "finish"
  /\ truncate_log_index' = local_apply[p]
  /\ out_log' = [out_log EXCEPT ![p] = local_apply[p]]
  /\ Return(p, "success")
  /\ ScopeExit
  /\ UNCHANGED <<phase, metas, registry, readers, next_reader_id, clock, apply_log_index,
                 snapshot_doing, write_lock, fork_apply, unlocks, admitted, calls>>
  /\ Destruct(dirs)
  /\ UNCHANGED otherVars

\* Lines 706-723: stale rotation, WAL truncate index, the out-parameter, return.
Save_Finish(p) ==
  /\ pc[p] = "finish"
  /\ registry' = DeleteAll(registry, stale_snapshots[p])
  /\ truncate_log_index' = local_apply[p]
  /\ out_log' = [out_log EXCEPT ![p] = local_apply[p]]
  /\ Return(p, "success")
  /\ ScopeExit
  /\ UNCHANGED <<phase, metas, readers, next_reader_id, clock, apply_log_index,
                 snapshot_doing, write_lock, fork_apply, unlocks, admitted, calls>>
  /\ Destruct(dirs)
  /\ UNCHANGED otherVars

SaveVectorIndexSnapshot(p) ==
  \/ Save_Guard(p)
  \/ Save_LockWrite(p)
  \/ Save_AlreadyExist(p)
  \/ Save_PrepareTmp(p)
  \/ Save_PipeFail(p)
  \/ Save_ForkFail(p)
  \/ Save_Fork(p)
  \/ Save_WaitChild(p)
  \/ Save_ChildError(p)
  \/ Save_ChildCrash(p)
  \/ Save_MetaOpenFail(p)
  \/ Save_RenameFail(p)
  \/ Save_Rename(p)
  \/ Save_GetStale(p)
  \/ Save_AddSnapshot(p)
  \/ Save_Finish(p)

\* ------------------------------------------------------------------ DownloadSnapshotFile
\* Lines 414-428: the uri parses; a snapshot at or above meta.snapshot_log_index
\* exists already.
Dl_AlreadyExistAt(p, l) ==
  /\ phase = "run" /\ pc[p] = "idle" /\ calls < MaxCalls
  /\ IsExistSnapshot(registry, Idx, l)
  /\ calls' = calls + 1
  /\ exit' = [exit EXCEPT ![p] = "already"]
  /\ UNCHANGED <<phase, dirs, metas, registry, readers, next_reader_id, clock,
                 indexVars, truncate_log_index, pc, localVars, admitted>>
  /\ UNCHANGED otherVars

\* A request whose meta carries any snapshot_log_index.
Dl_AlreadyExist(p) == \E l \in 1..MaxApply : Dl_AlreadyExistAt(p, l)

\* Lines 430-436: the tmp directory.
Dl_PrepareTmpAt(p, l) ==
  /\ phase = "run" /\ pc[p] = "idle" /\ calls < MaxCalls
  /\ ~IsExistSnapshot(registry, Idx, l)
  /\ local_apply' = [local_apply EXCEPT ![p] = l]
  /\ calls' = calls + 1
  /\ LET tmp == GetSnapshotTmpPath(Idx, clock)
     IN  /\ tmp_snapshot_path' = [tmp_snapshot_path EXCEPT ![p] = tmp]
         /\ dirs' = PrepareTmp(dirs, tmp)
  /\ clock' = clock + 1
  /\ pc' = [pc EXCEPT ![p] = "copy"]
  /\ exit' = [exit EXCEPT ![p] = "running"]
  /\ UNCHANGED <<phase, metas, registry, readers, next_reader_id, indexVars,
                 truncate_log_index, stale_snapshots, new_snapshot, reader_id,
                 out_log, fork_apply, unlocks, admitted>>
  /\ UNCHANGED otherVars

\* A request whose meta carries any snapshot_log_index.
Dl_PrepareTmp(p) == \E l \in 1..MaxApply : Dl_PrepareTmpAt(p, l)

\* An error return of Download; none of them removes the tmp directory.
DlFail(p, e) ==
  /\ Return(p, e)
  /\ UNCHANGED <<phase, metas, registry, readers, next_reader_id, clock, indexVars,
                 truncate_log_index, out_log, fork_apply, unlocks, admitted, calls>>
  /\ Destruct(dirs)
  /\ UNCHANGED otherVars

\* Lines 438-442: RemoteFileCopier::Init fails.
Dl_CopierFail(p) ==
  /\ pc[p] = "copy"
  /\ DlFail(p, "copier")

\* Lines 461-464: a chunk request fails.
Dl_ChunkFail(p) ==
  /\ pc[p] = "copy"
  /\ DlFail(p, "chunk")

\* Lines 443-479: every file copied.
Dl_Copy(p) ==
  /\ pc[p] = "copy"
  /\ pc' = [pc EXCEPT ![p] = "recheck"]
  /\ UNCHANGED <<phase, dirs, metas, registry, readers, next_reader_id, clock,
                 indexVars, truncate_log_index, localVars, exit, admitted, calls>>
  /\ UNCHANGED otherVars

\* Lines 481-486: the snapshot exists by now.
Dl_RecheckExist(p) ==
  /\ pc[p] = "recheck"
  /\ IsExistSnapshot(registry, Idx, local_apply[p])
  /\ DlFail(p, "already")

\* Lines 490-496: Helper::Rename fails.
Dl_RenameFail(p) ==
  /\ pc[p] = "recheck"
  /\ ~IsExistSnapshot(registry, Idx, local_apply[p])
  /\ DlFail(p, "rename")

\* Lines 490-491: tmp renamed to snapshot_<snapshot_log_index>.
Dl_Rename(p) ==
  /\ pc[p] = "recheck"
  /\ ~IsExistSnapshot(registry, Idx, local_apply[p])
  /\ tmp_snapshot_path[p] \in dirs
  /\ dirs' = (dirs \ {tmp_snapshot_path[p]}) \cup {GetSnapshotNewPath(Idx, local_apply[p])}
  /\ pc' = [pc EXCEPT ![p] = "stale"]
  /\ UNCHANGED <<phase, metas, registry, readers, next_reader_id, clock, indexVars,
                 truncate_log_index, localVars, exit, admitted, calls>>
  /\ UNCHANGED otherVars

\* Lines 498-504: GetSnapshots, SnapshotMeta::New, Init.
Dl_GetStale(p) ==
  /\ pc[p] = "stale"
  /\ LET path == GetSnapshotNewPath(Idx, local_apply[p])
     IN  /\ metas' = Append(metas, NewSnapshotMeta(Idx, path))
         /\ IF SnapshotMetaInit(path).ok
              THEN /\ stale_snapshots' = [stale_snapshots EXCEPT ![p] = GetSnapshots(registry, Idx)]
                   /\ new_snapshot' = [new_snapshot EXCEPT ![p] = Len(metas')]
                   /\ pc' = [pc EXCEPT ![p] = "add"]
                   /\ UNCHANGED <<local_apply, tmp_snapshot_path, reader_id, exit>>
              ELSE Return(p, "init")
  /\ UNCHANGED <<phase, registry, readers, next_reader_id, clock, indexVars,
                 truncate_log_index, out_log, fork_apply, unlocks, admitted, calls>>
  /\ Destruct(dirs)
  /\ UNCHANGED otherVars

\* Lines 506-509: AddSnapshot.
Dl_AddSnapshot(p) ==
  /\ pc[p] = "add"
  /\ LET r == AddSnapshot(metas, registry, new_snapshot[p])
     IN  /\ registry' = r.reg
         /\ IF r.ok
              THEN /\ pc' = [pc EXCEPT ![p] = "finish"]
                   /\ UNCHANGED <<local_apply, tmp_snapshot_path, reader_id, exit,
                                  stale_snapshots, new_snapshot>>
              ELSE Return(p, "add_collision")
  /\ UNCHANGED <<phase, metas, readers, next_reader_id, clock, indexVars,
                 truncate_log_index, out_log, fork_apply, unlocks, admitted, calls>>
  /\ Destruct(dirs)
  /\ UNCHANGED otherVars

\* Lines 511-516: stale rotation, return.
Dl_Finish(p) ==
  /\ pc[p] = "finish"
  /\ registry' = DeleteAll(registry, stale_snapshots[p])
  /\ Return(p, "success")
  /\ UNCHANGED <<phase, metas, readers, next_reader_id, clock, indexVars,
                 truncate_log_index, out_log, fork_apply, unlocks, admitted, calls>>
  /\ Destruct(dirs)
  /\ UNCHANGED otherVars

DownloadSnapshotFile(p) ==
  \/ Dl_AlreadyExist(p)
  \/ Dl_PrepareTmp(p)
  \/ Dl_CopierFail(p)
  \/ Dl_ChunkFail(p)
  \/ Dl_Copy(p)
  \/ Dl_RecheckExist(p)
  \/ Dl_RenameFail(p)
  \/ Dl_Rename(p)
  \/ Dl_GetStale(p)
  \/ Dl_AddSnapshot(p)
  \/ Dl_Finish(p)

\* ------------------------------------------------------------------ file readers
\* FileServiceReaderManager::AddReader of a FileReaderWrapper over object m
AddReader(m) ==
  /\ readers' = readers \cup {[id |-> next_reader_id, meta |-> m]}
  /\ next_reader_id' = next_reader_id + 1

\* FileServiceReaderManager::DeleteReader
DeleteReader(id) == readers' = {r \in readers : r.id # id}

\* Lines 202-206: LaunchInstallSnapshot finds no snapshot.
Install_NotFound(p) ==
  /\ phase = "run" /\ pc[p] = "idle" /\ calls < MaxCalls
  /\ GetLastSnapshot(registry, Idx) = NoMeta
  /\ calls' = calls + 1
  /\ exit' = [exit EXCEPT ![p] = "not_found"]
  /\ UNCHANGED <<phase, dirs, metas, registry, readers, next_reader_id, clock,
                 indexVars, truncate_log_index, pc, localVars, admitted>>
  /\ UNCHANGED otherVars

\* Lines 202-218: the last snapshot is wrapped in a reader and registered.
Install_AddReader(p) ==
  /\ phase = "run" /\ pc[p] = "idle" /\ calls < MaxCalls
  /\ GetLastSnapshot(registry, Idx) # NoMeta
  /\ server_host_port = "set"
  /\ calls' = calls + 1
  /\ new_snapshot' = [new_snapshot EXCEPT ![p] = GetLastSnapshot(registry, Idx)]
  /\ reader_id' = [reader_id EXCEPT ![p] = next_reader_id]
  /\ AddReader(GetLastSnapshot(registry, Idx))
  /\ pc' = [pc EXCEPT ![p] = "rpc"]
  /\ exit' = [exit EXCEPT ![p] = "running"]
  /\ UNCHANGED <<phase, dirs, metas, registry, clock, indexVars, truncate_log_index,
                 local_apply, tmp_snapshot_path, stale_snapshots, out_log, fork_apply,
                 unlocks, admitted>>
  /\ UNCHANGED otherVars

\* Lines 230-238: the RPC returned; the reader is deleted, the status returned.
Install_DeleteReader(p) ==
  /\ pc[p] = "rpc"
  /\ DeleteReader(reader_id[p])
  /\ Return(p, "rpc")
  /\ UNCHANGED <<phase, metas, registry, next_reader_id, clock, indexVars,
                 truncate_log_index, out_log, fork_apply, unlocks, admitted, calls>>
  /\ Destruct(dirs)
  /\ UNCHANGED otherVars

\* Lines 202-215: the reader is registered, then server.host or server.port
\* turns out to be missing.
Install_IllegalParams(p) ==
  /\ phase = "run" /\ pc[p] = "idle" /\ calls < MaxCalls
  /\ GetLastSnapshot(registry, Idx) # NoMeta
  /\ server_host_port = "missing"
  /\ calls' = calls + 1
  /\ new_snapshot' = [new_snapshot EXCEPT ![p] = GetLastSnapshot(registry, Idx)]
  /\ reader_id' = [reader_id EXCEPT ![p] = next_reader_id]
  /\ AddReader(GetLastSnapshot(registry, Idx))
  /\ pc' = [pc EXCEPT ![p] = "illegal"]
  /\ exit' = [exit EXCEPT ![p] = "running"]
  /\ UNCHANGED <<phase, dirs, metas, registry, clock, indexVars, truncate_log_index,
                 local_apply, tmp_snapshot_path, stale_snapshots, out_log, fork_apply,
                 unlocks, admitted>>
  /\ UNCHANGED otherVars

\* Lines 214-216: return EILLEGAL_PARAMTETERS.
Install_ReturnIllegal(p) ==
  /\ pc[p] = "illegal"
  /\ Return(p, "illegal")
  /\ UNCHANGED <<phase, metas, registry, readers, next_reader_id, clock, indexVars,
                 truncate_log_index, out_log, fork_apply, unlocks, admitted, calls>>
  /\ Destruct(dirs)
  /\ UNCHANGED otherVars

LaunchInstallSnapshot(p) ==
  \/ Install_NotFound(p)
  \/ Install_AddReader(p)
  \/ Install_DeleteReader(p)

\* Lines 316-351: HandlePullSnapshot registers a reader on the last snapshot
\* for a pulling peer.
HandlePullSnapshot ==
  /\ phase = "run" /\ calls < MaxCalls
  /\ GetLastSnapshot(registry, Idx) # NoMeta
  /\ server_host_port = "set"
  /\ calls' = calls + 1
  /\ AddReader(GetLastSnapshot(registry, Idx))
  /\ UNCHANGED <<phase, dirs, metas, registry, clock, indexVars, truncate_log_index,
                 pc, localVars, exit, admitted>>
  /\ UNCHANGED otherVars

\* The CleanFileReader request of the pulling peer (lines 267-273) arrives.
CleanFileReader ==
  /\ \E r \in readers :
       /\ \A p \in InstallProcs : pc[p] \in {"rpc", "illegal"} => reader_id[p] # r.id
       /\ DeleteReader(r.id)
  /\ UNCHANGED <<phase, metas, registry, next_reader_id, clock, indexVars,
                 truncate_log_index, pc, localVars, exit, admitted, calls>>
  /\ Destruct(dirs)
  /\ UNCHANGED otherVars

Next ==
  \/ ManagerInit
  \/ IndexWrite
  \/ \E p \in SaveProcs : SaveVectorIndexSnapshot(p)
  \/ \E p \in DownloadProcs : DownloadSnapshotFile(p)
  \/ \E p \in InstallProcs : LaunchInstallSnapshot(p)
  \/ HandlePullSnapshot
  \/ CleanFileReader

Spec == Init /\ [][Next]_vars

\* ------------------------------------------------------------------ install and pull traffic
\* A node that serves install requests of peers on two threads, installs its
\* own snapshot to followers and answers pulls, under any configuration.
InitPeer ==
  /\ InitSnapshot
  /\ server_host_port \in {"set", "missing"}
  /\ InitNoPeers

NextPeer ==
  \/ ManagerInit
  \/ \E p \in InstallReceiveProcs : DownloadSnapshotFile(p)
  \/ \E p \in InstallProcs : LaunchInstallSnapshot(p)
  \/ \E p \in InstallProcs : Install_IllegalParams(p)
  \/ \E p \in InstallProcs : Install_ReturnIllegal(p)
  \/ HandlePullSnapshot
  \/ CleanFileReader

\* The handlers of Spec on a disk with a left-over tmp directory.
SpecTmp == InitTmp /\ [][Next]_vars

SpecPeer == InitPeer /\ [][NextPeer]_vars

\* ------------------------------------------------------------------ pull and install loop
\* Variables of the node that neither a peer nor the two loops write directly.
snapshotVars == <<phase, dirs, metas, registry, readers, next_reader_id, clock,
                  indexVars, truncate_log_index, pc, localVars, admitted, calls,
                  server_host_port>>
nodeVars == <<snapshotVars, unitVars>>

\* The variables a call that is checked on its own does not write.
notUnitVars == <<snapshotVars, exit, peerVars, pullVars, followersVars, rebuildVars>>

\* ServiceAccess::GetVectorIndexSnapshot to peer q succeeds: q answers and its
\* HandlePullSnapshot (lines 316-351) finds a last snapshot.
GetVectorIndexSnapshotOk(q) == peer_up[q] /\ peer_snapshot[q] > 0

\* Lines 344-346, run by peer q: the reader it registers for the response.
PeerAddReader(q) ==
  /\ peer_readers' = [peer_readers EXCEPT ![q] = @ \cup {peer_next_reader_id[q]}]
  /\ peer_next_reader_id' = [peer_next_reader_id EXCEPT ![q] = @ + 1]

\* Lines 354-364: not a raft store engine, or no raft node of the region.
Pull_NoRaftNode ==
  /\ phase = "run" /\ pull_pc = "idle" /\ followers_pc = "idle"
  /\ pull_pc' = "done"
  /\ \E e \in {"EINTERNAL", "ERAFT_NOT_FOUND"} : pull_status' = e
  /\ UNCHANGED <<pull_todo, max_snapshot_log_index, endpoint, advertised, response>>
  /\ UNCHANGED <<nodeVars, exit, peerVars, followersVars, rebuildVars>>

\* Lines 366-376: the request, max_snapshot_log_index = 0, ListPeers.
Pull_Start ==
  /\ phase = "run" /\ pull_pc = "idle" /\ followers_pc = "idle"
  /\ pull_pc' = "probe"
  /\ pull_todo' = Peers
  /\ max_snapshot_log_index' = 0
  /\ endpoint' = NoEndpoint
  /\ UNCHANGED <<advertised, response, pull_status>>
  /\ UNCHANGED <<nodeVars, exit, peerVars, followersVars, rebuildVars>>

\* Lines 377-380: the loop skips the node itself.
Pull_SkipSelf ==
  /\ pull_pc = "probe" /\ pull_todo # <<>> /\ Head(pull_todo) = self_peer
  /\ pull_todo' = Tail(pull_todo)
  /\ UNCHANGED <<pull_pc, max_snapshot_log_index, endpoint, advertised, response,
                 pull_status>>
  /\ UNCHANGED <<nodeVars, exit, peerVars, followersVars, rebuildVars>>

\* Lines 382-386: the probe of a peer fails; the peer is skipped.
Pull_ProbeFail ==
  /\ pull_pc = "probe" /\ pull_todo # <<>> /\ Head(pull_todo) # self_peer
  /\ ~GetVectorIndexSnapshotOk(Head(pull_todo))
  /\ pull_todo' = Tail(pull_todo)
  /\ UNCHANGED <<pull_pc, max_snapshot_log_index, endpoint, advertised, response,
                 pull_status>>
  /\ UNCHANGED <<nodeVars, exit, peerVars, followersVars, rebuildVars>>

\* The probe loop without the comparison of line 388: the last answer wins.
Pull_Probe_LastWins ==
  /\ pull_pc = "probe" /\ pull_todo # <<>> /\ Head(pull_todo) # self_peer
  /\ LET q == Head(pull_todo)
     IN  /\ GetVectorIndexSnapshotOk(q)
         /\ PeerAddReader(q)
         /\ advertised' = [advertised EXCEPT ![q] = peer_snapshot[q]]
         /\ max_snapshot_log_index' = peer_snapshot[q]
         /\ endpoint' = q
  /\ pull_todo' = Tail(pull_todo)
  /\ UNCHANGED <<pull_pc, response, pull_status, peer_snapshot, peer_up>>
  /\ UNCHANGED <<nodeVars, exit, followersVars, rebuildVars>>

\* Lines 382-391: the peer answers with its last snapshot (and registers a
\* reader for the answer); a strictly greater log id replaces the maximum.
Pull_Probe ==
  /\ pull_pc = "probe" /\ pull_todo # <<>> /\ Head(pull_todo) # self_peer
  /\ LET q == Head(pull_todo)
     IN  /\ GetVectorIndexSnapshotOk(q)
         /\ PeerAddReader(q)
         /\ advertised' = [advertised EXCEPT ![q] = peer_snapshot[q]]
         /\ IF max_snapshot_log_index < peer_snapshot[q]
              THEN /\ max_snapshot_log_index' = peer_snapshot[q]
                   /\ endpoint' = q
              ELSE UNCHANGED <<max_snapshot_log_index, endpoint>>
  /\ pull_todo' = Tail(pull_todo)
  /\ UNCHANGED <<pull_pc, response, pull_status, peer_snapshot, peer_up>>
  /\ UNCHANGED <<nodeVars, exit, followersVars, rebuildVars>>

\* Lines 394-398: no peer has a snapshot.
Pull_NothingToPull ==
  /\ pull_pc = "probe" /\ pull_todo = <<>>
  /\ max_snapshot_log_index = 0
  /\ pull_pc' = "done"
  /\ pull_status' = "OK"
  /\ UNCHANGED <<pull_todo, max_snapshot_log_index, endpoint, advertised, response>>
  /\ UNCHANGED <<nodeVars, exit, peerVars, followersVars, rebuildVars>>

\* Lines 400-405 and 253-260: LaunchPullSnapshot's own request fails.
Pull_LaunchFail ==
  /\ pull_pc = "probe" /\ pull_todo = <<>>
  /\ max_snapshot_log_index > 0
  /\ ~GetVectorIndexSnapshotOk(endpoint)
  /\ pull_pc' = "done"
  /\ pull_status' = "RPC_STATUS"
  /\ UNCHANGED <<pull_todo, max_snapshot_log_index, endpoint, advertised, response>>
  /\ UNCHANGED <<nodeVars, exit, peerVars, followersVars, rebuildVars>>

\* Lines 400 and 253-260: LaunchPullSnapshot asks the chosen peer again; the
\* peer registers one more reader and answers with its uri and meta.
Pull_Launch ==
  /\ pull_pc = "probe" /\ pull_todo = <<>>
  /\ max_snapshot_log_index > 0
  /\ GetVectorIndexSnapshotOk(endpoint)
  /\ response' = [log |-> peer_snapshot[endpoint],
                  reader_id |-> peer_next_reader_id[endpoint]]
  /\ PeerAddReader(endpoint)
  /\ pull_pc' = "download"
  /\ UNCHANGED <<pull_todo, max_snapshot_log_index, endpoint, advertised, pull_status,
                 peer_snapshot, peer_up>>
  /\ UNCHANGED <<nodeVars, exit, followersVars, rebuildVars>>

\* Line 262: DownloadSnapshotFile(response.uri(), response.meta()) starts.
Pull_DownloadStart ==
  /\ pull_pc = "download" /\ exit[PullProc] = "none"
  /\ \/ Dl_AlreadyExistAt(PullProc, response.log)
     \/ Dl_PrepareTmpAt(PullProc, response.log)

\* Line 262: DownloadSnapshotFile runs.
Pull_Download ==
  /\ pull_pc = "download"
  /\ \/ Dl_CopierFail(PullProc)
     \/ Dl_ChunkFail(PullProc)
     \/ Dl_Copy(PullProc)
     \/ Dl_RecheckExist(PullProc)
     \/ Dl_RenameFail(PullProc)
     \/ Dl_Rename(PullProc)
     \/ Dl_GetStale(PullProc)
     \/ Dl_AddSnapshot(PullProc)
     \/ Dl_Finish(PullProc)

\* Lines 263-265 and 401-405: the download failed; its status is returned.
Pull_DownloadFail ==
  /\ pull_pc = "download" /\ pc[PullProc] = "idle"
  /\ exit[PullProc] \notin {"none", "running", "success"}
  /\ pull_pc' = "done"
  /\ pull_status' = StatusOf(exit[PullProc])
  /\ UNCHANGED <<pull_todo, max_snapshot_log_index, endpoint, advertised, response>>
  /\ UNCHANGED <<nodeVars, exit, peerVars, followersVars, rebuildVars>>

\* Lines 267-275 and 407-410: the reader of the download request is cleaned on
\* the peer; OK is returned.
Pull_CleanFileReader ==
  /\ pull_pc = "download" /\ pc[PullProc] = "idle"
  /\ exit[PullProc] = "success"
  /\ IF response.reader_id > 0 /\ peer_up[endpoint]
       THEN peer_readers' = [peer_readers EXCEPT ![endpoint] = @ \ {response.reader_id}]
       ELSE UNCHANGED peer_readers
  /\ pull_pc' = "done"
  /\ pull_status' = "OK"
  /\ UNCHANGED <<pull_todo, max_snapshot_log_index, endpoint, advertised, response,
                 peer_snapshot, peer_up, peer_next_reader_id>>
  /\ UNCHANGED <<nodeVars, exit, followersVars, rebuildVars>>

PullLastSnapshotFromPeers ==
  \/ Pull_NoRaftNode
  \/ Pull_Start
  \/ Pull_SkipSelf
  \/ Pull_ProbeFail
  \/ Pull_Probe
  \/ Pull_NothingToPull
  \/ Pull_LaunchFail
  \/ Pull_Launch
  \/ Pull_DownloadStart
  \/ Pull_Download
  \/ Pull_DownloadFail
  \/ Pull_CleanFileReader

\* Statuses the InstallVectorIndexSnapshot RPC brings back from a follower
\* (HandleInstallSnapshot, lines 241-249, or the transport).
RpcStatuses == {"OK", "EVECTOR_NOT_NEED_SNAPSHOT", "EVECTOR_SNAPSHOT_EXIST", "EINTERNAL"}

\* Lines 296-305: the level of the line logged for a failed LaunchInstallSnapshot.
LogLevel(status) ==
  IF status \in {"EVECTOR_NOT_NEED_SNAPSHOT", "EVECTOR_SNAPSHOT_EXIST"} THEN "INFO"
                                                                         ELSE "ERROR"

\* Lines 278-293: engine and raft node found, ListPeers.
Followers_Start ==
  /\ phase = "run" /\ followers_pc = "idle" /\ pull_pc = "idle"
  /\ followers_pc' = "loop"
  /\ followers_todo' = Peers
  /\ UNCHANGED <<followers_log, followers_status>>
  /\ UNCHANGED <<nodeVars, exit, peerVars, pullVars, rebuildVars>>

\* Lines 279-289: not a raft store engine, or no raft node of the region.
Followers_NoRaftNode ==
  /\ phase = "run" /\ followers_pc = "idle" /\ pull_pc = "idle"
  /\ followers_pc' = "done"
  /\ \E e \in {"EINTERNAL", "ERAFT_NOT_FOUND"} : followers_status' = e
  /\ UNCHANGED <<followers_todo, followers_log>>
  /\ UNCHANGED <<nodeVars, exit, peerVars, pullVars, rebuildVars>>

\* Lines 293-294: the loop skips the node itself.
Followers_SkipSelf ==
  /\ followers_pc = "loop" /\ followers_todo # <<>> /\ Head(followers_todo) = self_peer
  /\ followers_todo' = Tail(followers_todo)
  /\ UNCHANGED <<followers_pc, followers_log, followers_status>>
  /\ UNCHANGED <<nodeVars, exit, peerVars, pullVars, rebuildVars>>

\* Line 295: LaunchInstallSnapshot(peer.addr, id) runs.
Followers_Launch ==
  /\ followers_pc = "loop" /\ followers_todo # <<>> /\ Head(followers_todo) # self_peer
  /\ \E p \in InstallProcs :
       /\ pc[p] = "idle" => exit[p] = "none"
       /\ \/ LaunchInstallSnapshot(p)
          \/ Install_IllegalParams(p)
          \/ Install_ReturnIllegal(p)

\* Lines 296-307: the status of the call for this peer; a failure is logged,
\* the loop goes on.
Followers_Collect ==
  /\ followers_pc = "loop" /\ followers_todo # <<>> /\ Head(followers_todo) # self_peer
  /\ \E p \in InstallProcs :
       /\ pc[p] = "idle" /\ exit[p] \notin {"none", "running"}
       /\ \E status \in (IF exit[p] = "rpc" THEN RpcStatuses ELSE {StatusOf(exit[p])}) :
            followers_log' = IF status = "OK" THEN followers_log
                             ELSE Append(followers_log, LogLevel(status))
       /\ exit' = [exit EXCEPT ![p] = "none"]
  /\ followers_todo' = Tail(followers_todo)
  /\ UNCHANGED <<followers_pc, followers_status>>
  /\ UNCHANGED <<nodeVars, peerVars, pullVars, rebuildVars>>

\* Lines 309-313: the loop is over; OK is returned.
Followers_Return ==
  /\ followers_pc = "loop" /\ followers_todo = <<>>
  /\ followers_pc' = "done"
  /\ followers_status' = "OK"
  /\ UNCHANGED <<followers_todo, followers_log>>
  /\ UNCHANGED <<nodeVars, exit, peerVars, pullVars, rebuildVars>>

InstallSnapshotToFollowers ==
  \/ Followers_Start
  \/ Followers_NoRaftNode
  \/ Followers_SkipSelf
  \/ Followers_Launch
  \/ Followers_Collect
  \/ Followers_Return

\* A peer saves a newer snapshot of the index while the probe loop runs.
Peer_Save(q) ==
  /\ pull_pc = "probe"
  /\ peer_up[q] /\ peer_snapshot[q] < MaxApply
  /\ peer_snapshot' = [peer_snapshot EXCEPT ![q] = @ + 1]
  /\ UNCHANGED <<peer_up, peer_readers, peer_next_reader_id>>
  /\ UNCHANGED <<nodeVars, exit, pullVars, followersVars, rebuildVars>>

\* A peer stops while the probe loop runs; the readers of its process are gone
\* with it.
Peer_Stop(q) ==
  /\ pull_pc = "probe"
  /\ peer_up[q]
  /\ peer_up' = [peer_up EXCEPT ![q] = FALSE]
  /\ peer_readers' = [peer_readers EXCEPT ![q] = {}]
  /\ UNCHANGED <<peer_snapshot, peer_next_reader_id>>
  /\ UNCHANGED <<nodeVars, exit, pullVars, followersVars, rebuildVars>>

\* Lines 241-249: HandleInstallSnapshot downloads while the node has no vector
\* index of its own, which is while its start-up pull runs; the leader sends
\* one install request in that time.
HandleInstallSnapshot(p) ==
  /\ pc[p] = "idle" => (pull_pc \in {"probe", "download"} /\ exit[p] = "none")
  /\ DownloadSnapshotFile(p)

\* A node in one of two roles: a follower that pulls at start-up while the
\* leader may install a snapshot to it, or a leader that installs its last
\* snapshot to its followers (the pull runs before the node has an index, the
\* install loop after the index saved a snapshot).
InitPeers ==
  /\ InitSnapshot
  /\ apply_log_index = 0
  /\ server_host_port = "set"
  /\ InitPull
  /\ InitUnit
  /\ peer_snapshot \in [OtherPeers -> 0..MaxApply]
  /\ peer_up = [q \in OtherPeers |-> TRUE]
  /\ InitRebuild([live |-> NoIndex, status |-> <<>>, apply |-> <<>>, wal |-> 0])

NextPull ==
  \/ ManagerInit
  \/ PullLastSnapshotFromPeers
  \/ InstallSnapshotToFollowers
  \/ \E p \in DownloadProcs : HandleInstallSnapshot(p)
  \/ \E q \in OtherPeers : Peer_Save(q)
  \/ \E q \in OtherPeers : Peer_Stop(q)

SpecPull == InitPeers /\ [][NextPull]_vars

\* ------------------------------------------------------------------ RebuildVectorIndex
\* Variables of the snapshot subsystem, of the peers and of the two loops.
notRebuildVars == <<nodeVars, exit, peerVars, pullVars, followersVars>>

\* CheckRebuildStatus (part_002 lines 1273-1289)
CheckRebuildStatus(vi) ==
  IF vi = NoIndex THEN "OK"
  ELSE IF vi_status[vi] \notin {"NORMAL", "ERROR", "NONE"} THEN "EINTERNAL"
  ELSE "OK"

\* DingoSafeMap::Put: InnerPut inserts or replaces; the call returns 1.
Put(value) == [ret |-> 1, map |-> value]

\* VectorIndexManager::AddVectorIndex(vector_index, force = true)
AddVectorIndex(vi) == [ok |-> Put(vi).ret > 0, map |-> Put(vi).map]

\* ReplayWalToVectorIndex(vi, apply + 1, UINT64_MAX): last_log_id starts at
\* ApplyLogIndex() and is set to the index of every entry GetEntrys returned.
ReplayWalToVectorIndex_KeepApply(apply, last) == apply

ReplayWalToVectorIndex(apply, last) ==
  IF apply + 1 <= last THEN last ELSE apply

\* The new object of call p is released by its last owner.
RbDestroy(p) ==
  /\ vi_status' = [vi_status EXCEPT ![vector_index[p]] = "destroyed"]
  /\ vi_apply' = [vi_apply EXCEPT ![vector_index[p]] = 0]

\* A return of RebuildVectorIndex: the locals go out of scope.
RbReturn(p, e) ==
  /\ rb_pc' = [rb_pc EXCEPT ![p] = "idle"]
  /\ rb_exit' = [rb_exit EXCEPT ![p] = e]
  /\ online_vector_index' = [online_vector_index EXCEPT ![p] = NoIndex]
  /\ vector_index' = [vector_index EXCEPT ![p] = NoIndex]
  /\ rb_x' = [rb_x EXCEPT ![p] = 0]

\* Lines 1298-1303: GetVectorIndex, CheckRebuildStatus.
Rb_Check(p) ==
  /\ rb_pc[p] = "idle" /\ rebuilds < MaxRebuilds
  /\ rebuilds' = rebuilds + 1
  /\ IF CheckRebuildStatus(vector_indexs) = "OK"
       THEN /\ rb_pc' = [rb_pc EXCEPT ![p] = "checked"]
            /\ rb_exit' = [rb_exit EXCEPT ![p] = "running"]
            /\ online_vector_index' = [online_vector_index EXCEPT ![p] = vector_indexs]
            /\ UNCHANGED <<vector_index, rb_x>>
       ELSE RbReturn(p, "precondition")
  /\ UNCHANGED <<vector_indexs, vi_status, vi_apply, wal_last, apply_log_id_key,
                 is_switching>>
  /\ UNCHANGED notRebuildVars

\* Lines 1305-1308: the online index, when there is one, becomes REBUILDING.
Rb_SetRebuilding(p) ==
  /\ rb_pc[p] = "checked"
  /\ vi_status' = IF online_vector_index[p] = NoIndex THEN vi_status
                  ELSE [vi_status EXCEPT ![online_vector_index[p]] = "REBUILDING"]
  /\ rb_pc' = [rb_pc EXCEPT ![p] = "build"]
  /\ UNCHANGED <<vector_indexs, vi_apply, wal_last, apply_log_id_key, is_switching,
                 online_vector_index, vector_index, rb_x, rb_exit, rebuilds>>
  /\ UNCHANGED notRebuildVars

\* Lines 1312-1317: BuildVectorIndex returns nullptr.
Rb_BuildFail(p) ==
  /\ rb_pc[p] = "build"
  /\ RbReturn(p, "build")
  /\ UNCHANGED <<vector_indexs, vi_status, vi_apply, wal_last, apply_log_id_key,
                 is_switching, rebuilds>>
  /\ UNCHANGED notRebuildVars

\* Lines 1312-1324 and 1113-1189: BuildVectorIndex constructs a new object
\* whose apply_log_index is the stored apply log id.
Rb_Build(p) ==
  /\ rb_pc[p] = "build"
  /\ vi_status' = Append(vi_status, "NONE")
  /\ vi_apply' = Append(vi_apply, apply_log_id_key)
  /\ vector_index' = [vector_index EXCEPT ![p] = Len(vi_status) + 1]
  /\ \E need_save \in BOOLEAN :
       rb_pc' = [rb_pc EXCEPT ![p] = IF need_save THEN "save" ELSE "replay1"]
  /\ UNCHANGED <<vector_indexs, wal_last, apply_log_id_key, is_switching,
                 online_vector_index, rb_x, rb_exit, rebuilds>>
  /\ UNCHANGED notRebuildVars

\* Lines 1328-1335 and 1405-1415: SaveVectorIndex fails and the rebuild
\* returns EINTERNAL.
Rb_SaveFail(p) ==
  /\ rb_pc[p] = "save"
  /\ RbDestroy(p)
  /\ RbReturn(p, "save")
  /\ UNCHANGED <<vector_indexs, wal_last, apply_log_id_key, is_switching, rebuilds>>
  /\ UNCHANGED notRebuildVars

\* Lines 1328-1341 and 1400-1431: SaveVectorIndex succeeds (SNAPSHOTTING, then
\* NORMAL); the snapshot itself is the subject of SaveVectorIndexSnapshot.
Rb_Save(p) ==
  /\ rb_pc[p] = "save"
  /\ vi_status' = [vi_status EXCEPT ![vector_index[p]] = "NORMAL"]
  /\ rb_pc' = [rb_pc EXCEPT ![p] = "replay1"]
  /\ UNCHANGED <<vector_indexs, vi_apply, wal_last, apply_log_id_key, is_switching,
                 online_vector_index, vector_index, rb_x, rb_exit, rebuilds>>
  /\ UNCHANGED notRebuildVars

\* Lines 1345-1350: the first replay round fails.
Rb_Replay1Fail(p) ==
  /\ rb_pc[p] = "replay1"
  /\ RbDestroy(p)
  /\ RbReturn(p, "replay1")
  /\ UNCHANGED <<vector_indexs, wal_last, apply_log_id_key, is_switching, rebuilds>>
  /\ UNCHANGED notRebuildVars

\* Lines 1345-1354: the first replay round.
Rb_Replay1(p) ==
  /\ rb_pc[p] = "replay1"
  /\ vi_apply' = [vi_apply EXCEPT ![vector_index[p]] = ReplayWalToVectorIndex(@, wal_last)]
  /\ rb_pc' = [rb_pc EXCEPT ![p] = "switch"]
  /\ UNCHANGED <<vector_indexs, vi_status, wal_last, apply_log_id_key, is_switching,
                 online_vector_index, vector_index, rb_x, rb_exit, rebuilds>>
  /\ UNCHANGED notRebuildVars

\* Line 1358: region->SetIsSwitchingVectorIndex(true).
Rb_SetSwitching(p) ==
  /\ rb_pc[p] = "switch"
  /\ is_switching' = TRUE
  /\ rb_pc' = [rb_pc EXCEPT ![p] = "replay2"]
  /\ UNCHANGED <<vector_indexs, vi_status, vi_apply, wal_last, apply_log_id_key,
                 online_vector_index, vector_index, rb_x, rb_exit, rebuilds>>
  /\ UNCHANGED notRebuildVars

\* The catch-up failure without the ON_SCOPE_EXIT of line 1361.
Rb_Replay2Fail_NoScopeExit(p) ==
  /\ rb_pc[p] = "replay2"
  /\ RbDestroy(p)
  /\ RbReturn(p, "replay2")
  /\ UNCHANGED <<vector_indexs, wal_last, apply_log_id_key, is_switching, rebuilds>>
  /\ UNCHANGED notRebuildVars

\* Lines 1361-1370: the catch-up round fails; the scope exit clears the flag.
Rb_Replay2Fail(p) ==
  /\ rb_pc[p] = "replay2"
  /\ is_switching' = FALSE
  /\ RbDestroy(p)
  /\ RbReturn(p, "replay2")
  /\ UNCHANGED <<vector_indexs, wal_last, apply_log_id_key, rebuilds>>
  /\ UNCHANGED notRebuildVars

\* Lines 1365-1376: the catch-up round; the new object becomes NORMAL.
Rb_Replay2(p) ==
  /\ rb_pc[p] = "replay2"
  /\ rb_x' = [rb_x EXCEPT ![p] = wal_last]
  /\ vi_apply' = [vi_apply EXCEPT ![vector_index[p]] = ReplayWalToVectorIndex(@, wal_last)]
  /\ vi_status' = [vi_status EXCEPT ![vector_index[p]] = "NORMAL"]
  /\ rb_pc' = [rb_pc EXCEPT ![p] = "publish"]
  /\ UNCHANGED <<vector_indexs, wal_last, apply_log_id_key, is_switching,
                 online_vector_index, vector_index, rb_exit, rebuilds>>
  /\ UNCHANGED notRebuildVars

\* Lines 1379-1397: AddVectorIndex(vector_index, true), the scope exit, return.
Rb_Publish(p) ==
  /\ rb_pc[p] = "publish"
  /\ LET r == AddVectorIndex(vector_index[p])
     IN  /\ vector_indexs' = r.map
         /\ RbReturn(p, IF r.ok THEN "success" ELSE "publish")
  /\ is_switching' = FALSE
  /\ UNCHANGED <<vi_status, vi_apply, wal_last, apply_log_id_key, rebuilds>>
  /\ UNCHANGED notRebuildVars

RebuildVectorIndex(p) ==
  \/ Rb_Check(p)
  \/ Rb_SetRebuilding(p)
  \/ Rb_BuildFail(p)
  \/ Rb_Build(p)
  \/ Rb_SaveFail(p)
  \/ Rb_Save(p)
  \/ Rb_Replay1Fail(p)
  \/ Rb_Replay1(p)
  \/ Rb_SetSwitching(p)
  \/ Rb_Replay2Fail(p)
  \/ Rb_Replay2(p)
  \/ Rb_Publish(p)

\* DeleteVectorIndex (lines 861-876)
DeleteVectorIndex ==
  /\ vector_indexs # NoIndex
  /\ vector_indexs' = NoIndex
  /\ vi_status' = [vi_status EXCEPT ![vector_indexs] = "DELETE"]
  /\ apply_log_id_key' = 0
  /\ UNCHANGED <<vi_apply, wal_last, is_switching, rb_pc, online_vector_index,
                 vector_index, rb_x, rb_exit, rebuilds>>
  /\ UNCHANGED notRebuildVars

\* The raft log of the region grows by one entry.
LogAppend ==
  /\ wal_last < MaxWal
  /\ wal_last' = wal_last + 1
  /\ UNCHANGED <<vector_indexs, vi_status, vi_apply, apply_log_id_key, is_switching,
                 rb_pc, online_vector_index, vector_index, rb_x, rb_exit, rebuilds>>
  /\ UNCHANGED notRebuildVars

\* The raft handler applies the next entry to the online index; while the
\* region is switching it defers the write.
HandlerApply ==
  /\ ~is_switching
  /\ vector_indexs # NoIndex
  /\ vi_apply[vector_indexs] < wal_last
  /\ vi_apply' = [vi_apply EXCEPT ![vector_indexs] = @ + 1]
  /\ UNCHANGED <<vector_indexs, vi_status, wal_last, apply_log_id_key, is_switching,
                 rb_pc, online_vector_index, vector_index, rb_x, rb_exit, rebuilds>>
  /\ UNCHANGED notRebuildVars

\* The region when a rebuild is asked for: with an online index that is
\* NORMAL or ERROR, or without one.
RebuildInits ==
  {[live |-> NoIndex, status |-> <<>>, apply |-> <<>>, wal |-> w] : w \in {0, 1}}
    \cup {[live |-> 1, status |-> <<st>>, apply |-> <<a>>, wal |-> 1] :
            st \in {"NORMAL", "ERROR"}, a \in {0, 1}}

InitRegion ==
  /\ InitSnapshot
  /\ dirs = {}
  /\ apply_log_index = 0
  /\ server_host_port = "set"
  /\ InitPull
  /\ InitUnit
  /\ peer_snapshot = [q \in OtherPeers |-> 0]
  /\ peer_up = [q \in OtherPeers |-> TRUE]
  /\ \E rebuild_init \in RebuildInits : InitRebuild(rebuild_init)

NextRebuild ==
  \/ \E p \in RebuildProcs : RebuildVectorIndex(p)
  \/ DeleteVectorIndex
  \/ LogAppend
  \/ HandlerApply

SpecRebuild == InitRegion /\ [][NextRebuild]_vars

\* ------------------------------------------------------------------ save
\* The variables SaveVectorIndex does not write.
notSaveVars == <<snapshotVars, exit, peerVars, pullVars, followersVars, replayVars,
                 loadVars, parallelVars, scrubVars, uriVars, chunkVars, asyncVars,
                 vector_indexs,
                 vi_apply, wal_last, apply_log_id_key, is_switching, rb_pc,
                 online_vector_index, vector_index, rb_x, rb_exit, rebuilds>>

\* What SaveVectorIndexSnapshot returns (part_000 lines 519-720): OK, or one of
\* its errors.
WriterStatuses == {"OK", "EINTERNAL", "EVECTOR_SNAPSHOT_EXIST"}

\* ScrubVectorIndex(region, need_rebuild, need_save), lines 1567-1592, finds
\* the online index NORMAL and calls SaveVectorIndex, whose lines 1400-1405 set
\* the status SNAPSHOTTING.
Sv_Call ==
  /\ sv_pc \in {"idle", "done"}
  /\ sv_calls < MaxCalls
  /\ vector_indexs # NoIndex
  /\ vi_status[vector_indexs] = "NORMAL"
  /\ sv_vector_index' = vector_indexs
  /\ vi_status' = [vi_status EXCEPT ![vector_indexs] = "SNAPSHOTTING"]
  /\ sv_pc' = "writer"
  /\ sv_writer' = "NONE"
  /\ sv_status' = "NONE"
  /\ sv_calls' = sv_calls + 1
  /\ UNCHANGED notSaveVars

\* Line 1408: SaveVectorIndexSnapshot runs and returns.
Sv_Writer ==
  /\ sv_pc = "writer"
  /\ sv_writer' \in WriterStatuses
  /\ sv_pc' = "written"
  /\ UNCHANGED <<sv_vector_index, sv_status, sv_calls, vi_status>>
  /\ UNCHANGED notSaveVars

\* Lines 1409-1414 with the status write of line 1413 left out.
Sv_Error_KeepStatus ==
  /\ sv_pc = "written" /\ sv_writer # "OK"
  /\ sv_status' = sv_writer
  /\ sv_pc' = "done"
  /\ UNCHANGED <<sv_vector_index, sv_writer, sv_calls, vi_status>>
  /\ UNCHANGED notSaveVars

\* Lines 1409-1414: the writer failed; status NORMAL, return its status.
Sv_Error ==
  /\ sv_pc = "written" /\ sv_writer # "OK"
  /\ vi_status' = [vi_status EXCEPT ![sv_vector_index] = "NORMAL"]
  /\ sv_status' = sv_writer
  /\ sv_pc' = "done"
  /\ UNCHANGED <<sv_vector_index, sv_writer, sv_calls>>
  /\ UNCHANGED notSaveVars

\* Lines 1415-1421: the writer succeeded; UpdateSnapshotLogId stores the log
\* id in the index and in the meta store, then status NORMAL.
Sv_Ok ==
  /\ sv_pc = "written" /\ sv_writer = "OK"
  /\ vi_status' = [vi_status EXCEPT ![sv_vector_index] = "NORMAL"]
  /\ sv_pc' = "install"
  /\ UNCHANGED <<sv_vector_index, sv_writer, sv_status, sv_calls>>
  /\ UNCHANGED notSaveVars

\* Lines 1423-1430: InstallSnapshotToFollowers, whose error is logged only;
\* return OK.
Sv_Install ==
  /\ sv_pc = "install"
  /\ sv_status' = "OK"
  /\ sv_pc' = "done"
  /\ UNCHANGED <<sv_vector_index, sv_writer, sv_calls, vi_status>>
  /\ UNCHANGED notSaveVars

SaveVectorIndex ==
  \/ Sv_Call
  \/ Sv_Writer
  \/ Sv_Error
  \/ Sv_Ok
  \/ Sv_Install

NextSave ==
  \/ SaveVectorIndex
  \/ DeleteVectorIndex
  \/ LogAppend
  \/ HandlerApply

SpecSave == InitRegion /\ [][NextSave]_vars

\* ------------------------------------------------------------------ async rebuild
\* The variables the bthread of AsyncRebuildVectorIndex does not write itself.
notAsyncVars == <<notUnitVars, replayVars, loadVars, parallelVars, scrubVars, uriVars,
                  saveVars, chunkVars>>

\* The thread whose RebuildVectorIndex call is the one the bthread makes.
AsyncProc == "r2"

\* Lines 1219-1222: the statuses the wait loop sleeps on.
WaitStatuses == {"REBUILDING", "SNAPSHOTTING", "BUILDING", "REPLAYING"}

\* Lines 1200-1207 and 1263-1268: bthread_start_background starts the thread,
\* or fails, which is logged only.
Ar_Start ==
  /\ ar_pc = "idle"
  /\ ar_pc' \in {"wait", "done"}
  /\ UNCHANGED notAsyncVars
  /\ UNCHANGED rebuildVars

\* Lines 1214-1232, one round of the wait loop: leave it when the region has
\* no index or its status is none of WaitStatuses, otherwise sleep and look
\* again.
Ar_WaitLoop ==
  /\ ar_pc = "wait"
  /\ ar_pc' = IF vector_indexs = NoIndex \/ vi_status[vector_indexs] \notin WaitStatuses
                THEN "rebuild" ELSE "wait"
  /\ UNCHANGED notAsyncVars
  /\ UNCHANGED rebuildVars

\* Line 1234: the RebuildVectorIndex call of the thread.
Ar_Rebuild ==
  /\ ar_pc = "rebuild"
  /\ rb_exit[AsyncProc] \in {"none", "running"}
  /\ RebuildVectorIndex(AsyncProc)

\* Lines 1234-1244: the call returned; its error is logged only.
Ar_Returned ==
  /\ ar_pc = "rebuild"
  /\ rb_pc[AsyncProc] = "idle"
  /\ rb_exit[AsyncProc] \notin {"none", "running"}
  /\ ar_pc' = "config"
  /\ UNCHANGED notAsyncVars
  /\ UNCHANGED rebuildVars

\* Lines 1245-1257: followers do not hold the index and the node is not the
\* leader: DeleteVectorIndex.
Ar_DeleteVectorIndex ==
  /\ ar_pc = "config"
  /\ DeleteVectorIndex

\* Lines 1241-1260: return nullptr.
Ar_Done ==
  /\ ar_pc = "config"
  /\ ar_pc' = "done"
  /\ UNCHANGED notAsyncVars
  /\ UNCHANGED rebuildVars

AsyncRebuildVectorIndex ==
  \/ Ar_Start
  \/ Ar_WaitLoop
  \/ Ar_Rebuild
  \/ Ar_Returned
  \/ Ar_DeleteVectorIndex
  \/ Ar_Done

NextAsync ==
  \/ AsyncRebuildVectorIndex
  \/ \E p \in RebuildProcs \ {AsyncProc} : RebuildVectorIndex(p)
  \/ DeleteVectorIndex
  \/ LogAppend
  \/ HandlerApply

\* The bthread runs, and a RebuildVectorIndex call that started runs on.
SpecAsync ==
  /\ InitRegion
  /\ [][NextAsync]_vars
  /\ WF_vars(AsyncRebuildVectorIndex)
  /\ \A p \in RebuildProcs : WF_vars(rb_pc[p] # "idle" /\ RebuildVectorIndex(p))

\* ------------------------------------------------------------------ WAL replay
\* A node on which no snapshot handler, pull, install loop or rebuild runs: the
\* state around a call that is checked on its own.
InitQuiet ==
  /\ InitSnapshot
  /\ dirs = {}
  /\ apply_log_index = 0
  /\ server_host_port = "set"
  /\ InitPull
  /\ peer_snapshot = [q \in OtherPeers |-> 0]
  /\ peer_up = [q \in OtherPeers |-> TRUE]
  /\ InitRebuild([live |-> NoIndex, status |-> <<>>, apply |-> <<>>, wal |-> 0])

\* Vector ids and vector values of the replayed requests; value 0 of a content
\* is "id absent".
VectorIds == {1, 2}
VectorValues == {1, 2}
NoVector == 0

\* The requests of a raft log entry the replay loop looks at: VECTOR_ADD with
\* its vectors (<<id, value>> pairs, in order), VECTOR_DELETE with its ids.
\* Every entry carries one request.
VectorWithIds == VectorIds \X VectorValues
AddRequests ==
  {[cmd_type |-> "VECTOR_ADD", vectors |-> vs, ids |-> {}] :
     vs \in {<<v>> : v \in VectorWithIds}
            \cup {<<v, w>> : v \in VectorWithIds, w \in VectorWithIds}}
DeleteRequests ==
  {[cmd_type |-> "VECTOR_DELETE", vectors |-> <<>>, ids |-> ids] :
     ids \in (SUBSET VectorIds) \ {{}}}
Requests == AddRequests \cup DeleteRequests

\* Raft logs of at most n entries; the entry at position k has log index k.
RECURSIVE Logs(_)
Logs(n) ==
  IF n = 0 THEN {<<>>}
  ELSE Logs(n - 1) \cup {Append(l, r) : l \in {m \in Logs(n - 1) : Len(m) = n - 1},
                                        r \in Requests}

\* VectorIndex::Upsert(vectors): every vector of the batch is stored under its
\* id, in the order of the batch.
RECURSIVE Upsert(_, _)
Upsert(content, vectors) ==
  IF vectors = <<>> THEN content
  ELSE Upsert([content EXCEPT ![Head(vectors)[1]] = Head(vectors)[2]], Tail(vectors))

\* VectorIndex::Delete(ids): the ids are removed.
Delete(content, ids) == [id \in VectorIds |-> IF id \in ids THEN NoVector ELSE content[id]]

\* Lines 1070-1094, one request of the loop without the flush of the pending
\* vectors before a delete.
ReplayRequest_NoFlush(st, request) ==
  IF request.cmd_type = "VECTOR_ADD"
    THEN LET vectors == st.vectors \o request.vectors
         IN  IF Len(vectors) = BatchSize
               THEN [content |-> Upsert(st.content, vectors), vectors |-> <<>>]
               ELSE [content |-> st.content, vectors |-> vectors]
    ELSE [content |-> Delete(st.content, request.ids), vectors |-> st.vectors]

\* Lines 1070-1094, one request of the loop: st is [content, vectors], the
\* index content and the local batch.  VECTOR_ADD appends the request's vectors
\* to the batch and flushes it when its size is exactly the batch size;
\* VECTOR_DELETE flushes a non-empty batch and then deletes the ids.
ReplayRequest(st, request) ==
  IF request.cmd_type = "VECTOR_ADD"
    THEN LET vectors == st.vectors \o request.vectors
         IN  IF Len(vectors) = BatchSize
               THEN [content |-> Upsert(st.content, vectors), vectors |-> <<>>]
               ELSE [content |-> st.content, vectors |-> vectors]
    ELSE [content |-> Delete(Upsert(st.content, st.vectors), request.ids),
          vectors |-> <<>>]

\* Lines 1065-1097: the loop over the log entries.
RECURSIVE ReplayLoop(_, _)
ReplayLoop(st, log_entrys) ==
  IF log_entrys = <<>> THEN st
  ELSE ReplayLoop(ReplayRequest(st, Head(log_entrys)), Tail(log_entrys))

\* LogStorage::GetEntrys(start_log_id, end_log_id) with end_log_id the last
\* index: the entries from start_log_id on.
GetEntrys(wal, start_log_id) == SubSeq(wal, start_log_id, Len(wal))

\* ReplayWalToVectorIndex(vector_index, start_log_id, end_log_id), lines
\* 1059-1103: last_log_id starts at ApplyLogIndex() and becomes the index of
\* every entry visited; the batch left after the loop is flushed; then
\* SetApplyLogIndex(last_log_id).
ReplayWal(in) ==
  LET log_entrys == GetEntrys(in.wal, in.start_log_id)
      st == ReplayLoop([content |-> in.content, vectors |-> <<>>], log_entrys)
      last_log_id == IF log_entrys = <<>> THEN in.apply ELSE Len(in.wal)
  IN  [content |-> Upsert(st.content, st.vectors), apply |-> last_log_id]

\* The contents an index has before the replay.
ReplayContents == {[id \in VectorIds |-> NoVector],
                   [id \in VectorIds |-> IF id = 1 THEN 1 ELSE NoVector]}

InitReplay ==
  /\ InitQuiet
  /\ InitNoLoad
  /\ InitNoParallel
  /\ InitNoScrub
  /\ InitNoUri
  /\ InitNoSave
  /\ InitNoChunk
  /\ InitNoAsync
  /\ replay_in \in {[wal |-> w, start_log_id |-> s, content |-> c, apply |-> a] :
                      w \in Logs(MaxEntries), s \in 1..(MaxEntries + 1),
                      c \in ReplayContents, a \in {0, 1}}
  /\ replay_in.apply < replay_in.start_log_id
  /\ replay_in.start_log_id <= Len(replay_in.wal) + 1
  /\ replay_out = NoReplay

\* One ReplayWalToVectorIndex call that reaches its final return.
ReplayWalCall ==
  /\ replay_out = NoReplay
  /\ replay_out' = ReplayWal(replay_in)
  /\ UNCHANGED <<replay_in, loadVars, parallelVars, scrubVars, uriVars, saveVars, chunkVars,
                 asyncVars,
                 notUnitVars>>

NextReplay == ReplayWalCall

SpecReplay == InitReplay /\ [][NextReplay]_vars

\* ------------------------------------------------------------------ load or build
\* The variables LoadOrBuildVectorIndex does not write.
notLoadVars == <<snapshotVars, exit, peerVars, pullVars, followersVars, replayVars,
                 parallelVars, scrubVars, uriVars, saveVars, chunkVars, asyncVars, wal_last,
                 apply_log_id_key, is_switching, rb_pc,
                 online_vector_index, vector_index, rb_x, rb_exit, rebuilds>>

\* The region at bootstrap: without an index object in the live map or with
\* one, and a raft log that ends at wal.
LoadInits ==
  {[live |-> NoIndex, status |-> <<>>, apply |-> <<>>, wal |-> w] : w \in 0..MaxWal}
    \cup {[live |-> 1, status |-> <<"NORMAL">>, apply |-> <<0>>, wal |-> w] :
            w \in 0..MaxWal}

InitLoad ==
  /\ InitSnapshot
  /\ apply_log_index = 0
  /\ server_host_port = "set"
  /\ InitPull
  /\ InitNoReplay
  /\ InitNoLoad
  /\ InitNoParallel
  /\ InitNoScrub
  /\ InitNoUri
  /\ InitNoSave
  /\ InitNoChunk
  /\ InitNoAsync
  /\ peer_snapshot = [q \in OtherPeers |-> 0]
  /\ peer_up = [q \in OtherPeers |-> TRUE]
  /\ \E load_init \in LoadInits : InitRebuild(load_init)

\* update_online_vector_index_status, lines 917-921.
UpdateOnlineStatus(status_map, online, st) ==
  IF online = NoIndex THEN status_map ELSE [status_map EXCEPT ![online] = st]

\* Lines 916-924: GetVectorIndex, the online index becomes LOADING.
Lb_Start ==
  /\ phase = "run" /\ load_pc = "idle" /\ load = NoLoad
  /\ load' = [load EXCEPT !.online_vector_index = vector_indexs]
  /\ vi_status' = UpdateOnlineStatus(vi_status, vector_indexs, "LOADING")
  /\ load_pc' = "load"
  /\ UNCHANGED <<vector_indexs, vi_apply>>
  /\ UNCHANGED notLoadVars

\* LoadVectorIndexSnapshot, part_000 lines 727-776: nullptr when the registry
\* has no last snapshot, when the data file does not exist, when the factory or
\* Load fails; otherwise a new object whose snapshot_log_index and
\* apply_log_index are the snapshot's log id.
Lb_LoadSnapshot ==
  /\ load_pc = "load"
  /\ \E file_exists \in BOOLEAN, load_ok \in BOOLEAN :
       LET last_snapshot == GetLastSnapshot(registry, Idx)
       IN  IF last_snapshot # NoMeta /\ file_exists /\ load_ok
             THEN /\ vi_status' = Append(vi_status, "NONE")
                  /\ vi_apply' = Append(vi_apply, metas[last_snapshot].log)
                  /\ load' = [load EXCEPT !.new_vector_index = Len(vi_status) + 1,
                                          !.last_snapshot = metas[last_snapshot].log,
                                          !.snapshot_log_index = metas[last_snapshot].log]
                  /\ load_pc' = "replay"
             ELSE /\ load_pc' = "build"
                  /\ UNCHANGED <<vi_status, vi_apply, load>>
  /\ UNCHANGED vector_indexs
  /\ UNCHANGED notLoadVars

\* Lines 932-942 without the AddVectorIndex of line 938.
Lb_Replay_NoPublish ==
  /\ load_pc = "replay"
  /\ vi_apply' = [vi_apply EXCEPT ![load.new_vector_index] =
                                    ReplayWalToVectorIndex(@, wal_last)]
  /\ vi_status' = UpdateOnlineStatus(
                     [vi_status EXCEPT ![load.new_vector_index] = "NORMAL"],
                     load.online_vector_index, "NORMAL")
  /\ load' = [load EXCEPT !.replayed = TRUE, !.status = "OK"]
  /\ load_pc' = "done"
  /\ UNCHANGED vector_indexs
  /\ UNCHANGED notLoadVars

\* Lines 932-942: the replay from apply_log_index + 1 succeeds; the new object
\* becomes NORMAL and is put in the live map, the former online object gets
\* NORMAL, the call returns OK.
Lb_Replay ==
  /\ load_pc = "replay"
  /\ vi_apply' = [vi_apply EXCEPT ![load.new_vector_index] =
                                    ReplayWalToVectorIndex(@, wal_last)]
  /\ vi_status' = UpdateOnlineStatus(
                     [vi_status EXCEPT ![load.new_vector_index] = "NORMAL"],
                     load.online_vector_index, "NORMAL")
  /\ vector_indexs' = AddVectorIndex(load.new_vector_index).map
  /\ load' = [load EXCEPT !.replayed = TRUE, !.status = "OK"]
  /\ load_pc' = "done"
  /\ UNCHANGED notLoadVars

\* Lines 932-933 and 945: ReplayWalToVectorIndex returns an error (no engine,
\* no raft node, no log storage: lines 1040-1057); the call goes on to build.
Lb_ReplayFail ==
  /\ load_pc = "replay"
  /\ load_pc' = "build"
  /\ UNCHANGED <<vector_indexs, vi_status, vi_apply, load>>
  /\ UNCHANGED notLoadVars

\* Lines 952-960: BuildVectorIndex returns nullptr (factory or stored log ids
\* fail, lines 1117-1133); the object loaded from the snapshot is released.
Lb_BuildFail ==
  /\ load_pc = "build"
  /\ vi_status' = UpdateOnlineStatus(vi_status, load.online_vector_index, "NORMAL")
  /\ load' = [load EXCEPT !.new_vector_index = NoIndex, !.snapshot_log_index = 0,
                          !.status = "EINTERNAL"]
  /\ load_pc' = "done"
  /\ UNCHANGED <<vector_indexs, vi_apply>>
  /\ UNCHANGED notLoadVars

\* Lines 952-971 and 1113-1189: BuildVectorIndex scans the store into a new
\* object whose log ids are the stored ones; it becomes NORMAL and is put in
\* the live map.
Lb_Build ==
  /\ load_pc = "build"
  /\ vi_status' = UpdateOnlineStatus(Append(vi_status, "NORMAL"),
                                     load.online_vector_index, "NORMAL")
  /\ vi_apply' = Append(vi_apply, apply_log_id_key)
  /\ vector_indexs' = AddVectorIndex(Len(vi_status) + 1).map
  /\ load' = [load EXCEPT !.new_vector_index = Len(vi_status) + 1,
                          !.snapshot_log_index = 0, !.scanned = TRUE, !.status = "OK"]
  /\ load_pc' = "done"
  /\ UNCHANGED notLoadVars

LoadOrBuildVectorIndex ==
  \/ Lb_Start
  \/ Lb_LoadSnapshot
  \/ Lb_Replay
  \/ Lb_ReplayFail
  \/ Lb_BuildFail
  \/ Lb_Build

NextLoad ==
  \/ ManagerInit
  \/ LoadOrBuildVectorIndex

SpecLoad == InitLoad /\ [][NextLoad]_vars

\* ------------------------------------------------------------------ parallel load
\* The variables ParallelLoadOrBuildVectorIndex and its tasks do not write.
notParallelVars == <<notUnitVars, replayVars, loadVars, scrubVars, uriVars, saveVars,
                     chunkVars, asyncVars>>

\* Region lists of at most n regions; has_index is what GetVectorIndex finds
\* for the region, load_ok whether LoadOrBuildVectorIndex succeeds for it.
RegionKinds == [has_index : BOOLEAN, load_ok : BOOLEAN]
RECURSIVE RegionLists(_)
RegionLists(n) ==
  IF n = 0 THEN {<<>>}
  ELSE RegionLists(n - 1)
         \cup {Append(l, r) : l \in {m \in RegionLists(n - 1) : Len(m) = n - 1},
                              r \in RegionKinds}

\* Lines 983-987: the Parameter the call constructs over its regions.
InitParallel ==
  /\ InitQuiet
  /\ InitNoReplay
  /\ InitNoLoad
  /\ InitNoScrub
  /\ InitNoUri
  /\ InitNoSave
  /\ InitNoChunk
  /\ InitNoAsync
  /\ par_pc = "idle"
  /\ par_status = "NONE"
  /\ param_regions \in RegionLists(MaxRegions)
  /\ param_offset = 0
  /\ param_results = [k \in 1..Len(param_regions) |-> 0]
  /\ task_pc = [w \in Workers |-> "none"]
  /\ task_offset = [w \in Workers |-> 0]

\* std::atomic<int>::fetch_add(n): returns the value before, stores value + n.
FetchAdd(value, n) == [ret |-> value, val |-> value + n]

\* Line 1023, Helper::ParallelRunTask(task, param, concurrency) starts
\* concurrency worker tasks.
Par_Start ==
  /\ par_pc = "idle"
  /\ \E concurrency \in 1..MaxConcurrency :
       task_pc' = [w \in Workers |-> IF w <= concurrency THEN "fetch" ELSE "none"]
  /\ par_pc' = "running"
  /\ UNCHANGED <<par_status, param_regions, param_offset, param_results, task_offset>>
  /\ UNCHANGED notParallelVars

\* Lines 1023-1025: ParallelRunTask returns false.
Par_CreateFail ==
  /\ par_pc = "idle"
  /\ par_pc' = "done"
  /\ par_status' = "EINTERNAL"
  /\ UNCHANGED <<param_regions, param_offset, param_results, task_pc, task_offset>>
  /\ UNCHANGED notParallelVars

\* Lines 996-1000: int offset = param->offset.fetch_add(0); break when it is
\* past the regions.
Task_FetchOffset(w) ==
  /\ par_pc = "running" /\ task_pc[w] = "fetch"
  /\ LET fetched == FetchAdd(param_offset, 0)
     IN  /\ param_offset' = fetched.val
         /\ task_offset' = [task_offset EXCEPT ![w] = fetched.ret]
         /\ task_pc' = [task_pc EXCEPT ![w] =
                          IF fetched.ret >= Len(param_regions) THEN "exit" ELSE "get"]
  /\ UNCHANGED <<par_pc, par_status, param_regions, param_results>>
  /\ UNCHANGED notParallelVars

\* Lines 1002-1012: GetVectorIndex; continue when the region has no index.
Task_GetVectorIndex(w) ==
  /\ par_pc = "running" /\ task_pc[w] = "get"
  /\ task_pc' = [task_pc EXCEPT ![w] =
                   IF param_regions[task_offset[w] + 1].has_index THEN "load" ELSE "fetch"]
  /\ UNCHANGED <<par_pc, par_status, param_regions, param_offset, param_results,
                 task_offset>>
  /\ UNCHANGED notParallelVars

\* Lines 1013-1018: LoadOrBuildVectorIndex(region); on failure results[offset]
\* = -1 and break, otherwise the next round of the loop.
Task_LoadOrBuild(w) ==
  /\ par_pc = "running" /\ task_pc[w] = "load"
  /\ IF param_regions[task_offset[w] + 1].load_ok
       THEN /\ task_pc' = [task_pc EXCEPT ![w] = "fetch"]
            /\ UNCHANGED param_results
       ELSE /\ task_pc' = [task_pc EXCEPT ![w] = "exit"]
            /\ param_results' = [param_results EXCEPT ![task_offset[w] + 1] = -1]
  /\ UNCHANGED <<par_pc, par_status, param_regions, param_offset, task_offset>>
  /\ UNCHANGED notParallelVars

\* Lines 1023-1033: ParallelRunTask returns after every task returned; the
\* call fails when one result is -1.
Par_Return ==
  /\ par_pc = "running"
  /\ \A w \in Workers : task_pc[w] \in {"none", "exit"}
  /\ par_pc' = "done"
  /\ par_status' = IF \E k \in 1..Len(param_results) : param_results[k] = -1
                     THEN "EINTERNAL" ELSE "OK"
  /\ UNCHANGED <<param_regions, param_offset, param_results, task_pc, task_offset>>
  /\ UNCHANGED notParallelVars

Task(w) ==
  \/ Task_FetchOffset(w)
  \/ Task_GetVectorIndex(w)
  \/ Task_LoadOrBuild(w)

ParallelLoadOrBuildVectorIndex ==
  \/ Par_Start
  \/ Par_CreateFail
  \/ Par_Return

NextParallel ==
  \/ ParallelLoadOrBuildVectorIndex
  \/ \E w \in Workers : Task(w)

\* Every started task is scheduled and the caller goes on once the tasks have
\* returned.
SpecParallel ==
  /\ InitParallel
  /\ [][NextParallel]_vars
  /\ WF_vars(ParallelLoadOrBuildVectorIndex)
  /\ \A w \in Workers : WF_vars(Task(w))

\* ------------------------------------------------------------------ scrub
\* The variables the scrub sweep does not write.
notScrubVars == <<notUnitVars, replayVars, loadVars, parallelVars, uriVars, saveVars,
                  chunkVars, asyncVars>>

\* Statuses of a live index the sweep can meet.
ScrubStatuses == {"NORMAL", "REBUILDING", "SNAPSHOTTING", "ERROR"}

\* What the sweep finds for a region: whether GetVectorIndex returns an
\* object, its status, and what NeedToRebuild and NeedToSave answer.
ScrubKinds == [has_index : BOOLEAN, status : ScrubStatuses,
               need_rebuild : BOOLEAN, need_save : BOOLEAN]
RECURSIVE ScrubLists(_)
ScrubLists(n) ==
  IF n = 0 THEN {<<>>}
  ELSE ScrubLists(n - 1)
         \cup {Append(l, r) : l \in {m \in ScrubLists(n - 1) : Len(m) = n - 1},
                              r \in ScrubKinds}

InitScrub ==
  /\ InitQuiet
  /\ InitNoReplay
  /\ InitNoLoad
  /\ InitNoParallel
  /\ InitNoUri
  /\ InitNoSave
  /\ InitNoChunk
  /\ InitNoAsync
  /\ scrub_pc = "idle"
  /\ scrub_regions \in ScrubLists(MaxRegions)
  /\ scrub_offset = 0
  /\ scrub_calls = <<>>

\* Lines 1575-1598 with `if (need_save)` in the place of `else if (need_save)`.
ScrubRegion_Both(status, need_rebuild, need_save) ==
  IF status # "NORMAL" THEN <<>>
  ELSE (IF need_rebuild THEN <<"rebuild">> ELSE <<>>)
         \o (IF need_save THEN <<"save">> ELSE <<>>)

\* ScrubVectorIndex(region, need_rebuild, need_save), lines 1575-1598: the
\* operations it calls, in order.
ScrubRegion(status, need_rebuild, need_save) ==
  IF status # "NORMAL" THEN <<>>
  ELSE IF need_rebuild THEN <<"rebuild">>
  ELSE IF need_save THEN <<"save">>
  ELSE <<>>

\* Lines 1527-1531: the sweep reads the alive regions.
Scrub_Start ==
  /\ scrub_pc = "idle"
  /\ scrub_pc' = IF scrub_regions = <<>> THEN "done" ELSE "loop"
  /\ UNCHANGED <<scrub_regions, scrub_offset, scrub_calls>>
  /\ UNCHANGED notScrubVars

\* Lines 1535-1562 and 1567-1603: one round of the loop.  A region without
\* index is passed over; ScrubVectorIndex(region, ...) is called when one of
\* the two answers is true.  RebuildVectorIndex leaves the region's index
\* NORMAL when it succeeds and REBUILDING when it fails after line 1307;
\* SaveVectorIndex leaves it NORMAL (lines 1405-1420).
Scrub_Region ==
  /\ scrub_pc = "loop"
  /\ LET k == scrub_offset + 1
         region == scrub_regions[k]
         ops == IF region.has_index /\ (region.need_rebuild \/ region.need_save)
                  THEN ScrubRegion(region.status, region.need_rebuild, region.need_save)
                  ELSE <<>>
     IN  /\ scrub_calls' = scrub_calls \o [j \in 1..Len(ops) |-> <<k, ops[j]>>]
         /\ \E ok \in BOOLEAN :
              scrub_regions' =
                [scrub_regions EXCEPT ![k].status =
                   IF ops = <<>> THEN @
                   ELSE IF ops[1] = "rebuild" /\ ~ok THEN "REBUILDING"
                   ELSE "NORMAL"]
         /\ scrub_offset' = k
         /\ scrub_pc' = IF k = Len(scrub_regions) THEN "done" ELSE "loop"
  /\ UNCHANGED notScrubVars

ScrubVectorIndex ==
  \/ Scrub_Start
  \/ Scrub_Region

NextScrub == ScrubVectorIndex

SpecScrub == InitScrub /\ [][NextScrub]_vars

\* ------------------------------------------------------------------ snapshot uri
\* The variables the uri check of DownloadSnapshotFile does not write.
notUriVars == <<notUnitVars, replayVars, loadVars, parallelVars, scrubVars, saveVars,
                chunkVars, asyncVars>>

\* A uri is a sequence of characters.  "r" stands for the scheme text
\* "remote:", "h" for a dotted IPv4 address such as 10.0.0.1, "x" for a letter;
\* "0", "7" and "9" are the digits, "/" and ":" themselves.
DigitValue(c) == CASE c = "0" -> 0 [] c = "7" -> 7 [] c = "9" -> 9 [] OTHER -> -1
IsDigit(c) == DigitValue(c) >= 0

\* butil::SplitString(str, c, &r): the pieces of str between the occurrences
\* of c, empty pieces included; no piece for an empty str.
RECURSIVE SplitFrom(_, _, _)
SplitFrom(str, c, piece) ==
  IF str = <<>> THEN <<piece>>
  ELSE IF Head(str) = c THEN <<piece>> \o SplitFrom(Tail(str), c, <<>>)
  ELSE SplitFrom(Tail(str), c, Append(piece, Head(str)))
SplitString(str, c) == IF str = <<>> THEN <<>> ELSE SplitFrom(str, c, <<>>)

\* std::strtoull(str, &end, 10): the value of the longest prefix of digits
\* and the number of characters consumed.
RECURSIVE StrToULL(_, _, _)
StrToULL(str, value, consumed) ==
  IF str # <<>> /\ IsDigit(Head(str))
    THEN StrToULL(Tail(str), value * 10 + DigitValue(Head(str)), consumed + 1)
    ELSE [result |-> value, end |-> consumed]

\* butil::str2endpoint(str, &endpoint): "<ip>:<port>" with a decimal port
\* sets the endpoint, anything else leaves it as constructed.
Str2EndPoint(str) ==
  IF Len(str) >= 3 /\ str[1] = "h" /\ str[2] = ":"
       /\ StrToULL(SubSeq(str, 3, Len(str)), 0, 0).end = Len(str) - 2
    THEN [ip |-> "10.0.0.1", port |-> StrToULL(SubSeq(str, 3, Len(str)), 0, 0).result]
    ELSE ZeroEndPoint

\* ParseHost, lines 108-121.
ParseHost(str) ==
  LET strs == SplitString(str, "/")
  IN  IF Len(strs) < 4 THEN ZeroEndPoint ELSE Str2EndPoint(strs[3])

\* ParseReaderId, lines 124-141.
ParseReaderId(str) ==
  LET strs == SplitString(str, "/")
  IN  IF Len(strs) < 4 THEN 0
      ELSE LET reader_id_str == strs[4]
               parsed == StrToULL(reader_id_str, 0, 0)
           IN  IF parsed.end + 1 <= Len(reader_id_str) THEN 0 ELSE parsed.result

\* The uris given to DownloadSnapshotFile: a scheme or none, one or two
\* slashes, a host part and a tail.
Uris ==
  {scheme \o sep \o host \o tail :
     scheme \in {<<"r">>, <<>>},
     sep \in {<<"/", "/">>, <<"/">>},
     host \in {<<"h", ":", "7">>, <<"h", ":", "0">>, <<"h">>, <<"x">>},
     tail \in {<<"/", "9">>, <<"/", "0">>, <<"/", "9", "x">>, <<"/", "9", "/", "9">>,
               <<"/">>, <<>>}}

InitUri ==
  /\ InitQuiet
  /\ InitNoReplay
  /\ InitNoLoad
  /\ InitNoParallel
  /\ InitNoScrub
  /\ InitNoSave
  /\ InitNoChunk
  /\ InitNoAsync
  /\ uri \in Uris
  /\ uri_pc = "idle"
  /\ uri_parsed = [reader_id |-> 0, endpoint |-> ZeroEndPoint]

\* Lines 415-416: reader_id = ParseReaderId(uri), endpoint = ParseHost(uri).
Uri_Parse ==
  /\ uri_pc = "idle"
  /\ uri_parsed' = [reader_id |-> ParseReaderId(uri), endpoint |-> ParseHost(uri)]
  /\ uri_pc' = "parsed"
  /\ UNCHANGED uri
  /\ UNCHANGED notUriVars

\* Lines 417-419: EINTERNAL when reader_id == 0 or endpoint.port == 0; no tmp
\* directory and no registry entry exist at that point of the call.
Uri_Reject ==
  /\ uri_pc = "parsed"
  /\ uri_parsed.reader_id = 0 \/ uri_parsed.endpoint.port = 0
  /\ uri_pc' = "EINTERNAL"
  /\ UNCHANGED <<uri, uri_parsed>>
  /\ UNCHANGED notUriVars

\* Lines 417-421: the uri passes and the call goes on to IsExistSnapshot.
Uri_Accept ==
  /\ uri_pc = "parsed"
  /\ ~(uri_parsed.reader_id = 0 \/ uri_parsed.endpoint.port = 0)
  /\ uri_pc' = "accepted"
  /\ UNCHANGED <<uri, uri_parsed>>
  /\ UNCHANGED notUriVars

NextUri ==
  \/ Uri_Parse
  \/ Uri_Reject
  \/ Uri_Accept

SpecUri == InitUri /\ [][NextUri]_vars

\* ------------------------------------------------------------------ scrub lag
\* A uint64_t is four 16-bit limbs, the most significant first.
Limb == 2 ^ 16
ToUint64(n) == <<0, 0, 0, n>>

\* x - y of two uint64_t: limb by limb with borrow, the borrow out of the most
\* significant limb is dropped (the difference modulo 2^64).
Uint64Sub(x, y) ==
  LET d4 == x[4] - y[4]
      b4 == IF d4 < 0 THEN 1 ELSE 0
      d3 == x[3] - y[3] - b4
      b3 == IF d3 < 0 THEN 1 ELSE 0
      d2 == x[2] - y[2] - b3
      b2 == IF d2 < 0 THEN 1 ELSE 0
      d1 == x[1] - y[1] - b2
      b1 == IF d1 < 0 THEN 1 ELSE 0
  IN  <<d1 + b1 * Limb, d2 + b2 * Limb, d3 + b3 * Limb, d4 + b4 * Limb>>

\* ScrubVectorIndex(), lines 1541-1542: the log id of GetLastSnapshot, 0 when
\* the registry holds no snapshot of the index.
last_snaphsot_log_id ==
  LET last_snapshot == GetLastSnapshot(registry, Idx)
  IN  IF last_snapshot = NoMeta THEN 0 ELSE metas[last_snapshot].log

\* Line 1544: ApplyLogIndex() - last_snaphsot_log_id, in uint64_t.
last_save_log_behind ==
  Uint64Sub(ToUint64(apply_log_index), ToUint64(last_snaphsot_log_id))

\* ------------------------------------------------------------------ chunked transfer
\* The variables the chunk loop of DownloadSnapshotFile does not write.
notChunkVars == <<notUnitVars, replayVars, loadVars, parallelVars, scrubVars, uriVars,
                  saveVars, asyncVars>>

\* Longest file transferred, and Constant::kFileTransportChunkSize.
MaxFileLen == 4
kFileTransportChunkSize == 2

\* A file is a sequence of bytes.
Bytes == {"a", "b"}
Files(n) == UNION {[1..k -> Bytes] : k \in 0..n}

\* The serving peer's GetFile: the bytes [offset, offset + size) of the file,
\* read_size the count returned, and eof set by the read that reached the end
\* of the file: the read that returned the last byte ("at_end") or the read
\* that came back short ("short_read").
GetFile(file, offset, size, eof_rule) ==
  LET last == IF offset + size < Len(file) THEN offset + size ELSE Len(file)
      buf == SubSeq(file, offset + 1, last)
  IN  [buf |-> buf,
       read_size |-> Len(buf),
       eof |-> IF eof_rule = "at_end" THEN offset + Len(buf) >= Len(file)
               ELSE Len(buf) < size]

InitChunk ==
  /\ InitQuiet
  /\ InitNoReplay
  /\ InitNoLoad
  /\ InitNoParallel
  /\ InitNoScrub
  /\ InitNoUri
  /\ InitNoSave
  /\ InitNoAsync
  /\ ck_file \in Files(MaxFileLen)
  /\ ck_eof \in {"at_end", "short_read"}
  /\ ck_pc = "idle"
  /\ ck_offset = 0
  /\ ck_ofile = <<>>

\* Lines 443-449: offset = 0 and ofile.open(filepath, out | binary).
Ck_Open ==
  /\ ck_pc = "idle"
  /\ ck_pc' = "loop"
  /\ ck_offset' = 0
  /\ ck_ofile' = <<>>
  /\ UNCHANGED <<ck_file, ck_eof>>
  /\ UNCHANGED notChunkVars

\* Lines 460-463: GetFile returns nullptr; return EINTERNAL.
Ck_GetFileFail ==
  /\ ck_pc = "loop"
  /\ ck_pc' = "failed"
  /\ UNCHANGED <<ck_file, ck_eof, ck_offset, ck_ofile>>
  /\ UNCHANGED notChunkVars

\* One round of lines 451-475 that tests eof before it writes buf.
Ck_GetFile_EofFirst ==
  /\ ck_pc = "loop"
  /\ LET get_file_response == GetFile(ck_file, ck_offset, kFileTransportChunkSize, ck_eof)
     IN  IF get_file_response.eof
           THEN /\ ck_pc' = "closed"
                /\ UNCHANGED <<ck_offset, ck_ofile>>
           ELSE /\ ck_ofile' = ck_ofile \o get_file_response.buf
                /\ ck_offset' = ck_offset + get_file_response.read_size
                /\ UNCHANGED ck_pc
  /\ UNCHANGED <<ck_file, ck_eof>>
  /\ UNCHANGED notChunkVars

\* One round of lines 451-475: request kFileTransportChunkSize bytes at
\* offset, write buf, break on eof (and close the file, line 478), otherwise
\* offset += read_size.
Ck_GetFile ==
  /\ ck_pc = "loop"
  /\ LET get_file_response == GetFile(ck_file, ck_offset, kFileTransportChunkSize, ck_eof)
     IN  /\ ck_ofile' = ck_ofile \o get_file_response.buf
         /\ IF get_file_response.eof
              THEN /\ ck_pc' = "closed"
                   /\ UNCHANGED ck_offset
              ELSE /\ ck_offset' = ck_offset + get_file_response.read_size
                   /\ UNCHANGED ck_pc
  /\ UNCHANGED <<ck_file, ck_eof>>
  /\ UNCHANGED notChunkVars

NextChunk ==
  \/ Ck_Open
  \/ Ck_GetFileFail
  \/ Ck_GetFile

\* The thread that runs DownloadSnapshotFile keeps running.
SpecChunk == InitChunk /\ [][NextChunk]_vars /\ WF_vars(NextChunk)

\* ------------------------------------------------------------------ properties
\* Save calls that are between their guard and their return.
Running == {p \in SaveProcs : pc[p] # "idle"}

\* Directories named snapshot_* under the directory of index i.
SnapshotDirs(ds, i) == {d \in ds : d[1] = i /\ IsSnapshotName(d)}

\* Exit paths of Save that come after LockWrite.
LockedExits == {"exist", "pipe", "fork", "child_err", "child_crash", "meta_open",
                "rename", "init", "add_collision", "success"}

\* C1: for one index at most one SaveVectorIndexSnapshot call is between its
\* guard and its return, and SnapshotDoing is true exactly while one is.
C1_SingleInFlight ==
  /\ Cardinality(Running) <= 1
  /\ SnapshotDoing <=> Running # {}

\* C2: in behaviours of Save calls and index writes only, the log ids that
\* Save calls admit into the registry are strictly increasing.
C2_AdmittedIncreasing ==
  (\A d \in DownloadProcs : exit[d] = "none") =>
    \A i, j \in 1..Len(admitted) : i < j => admitted[i] < admitted[j]

\* C3: the write lock is held from the read of apply_log_index until fork
\* returns, so the value read is the index's apply_log_index at the fork; the
\* snapshot admitted carries it as log id and the caller is told the same value.
C3_LogIdIsApplyAtFork ==
  \A p \in SaveProcs :
    /\ pc[p] \in {"exist", "fork"} =>
         write_lock = p /\ local_apply[p] = apply_log_index
    /\ pc[p] \in {"wait", "rename", "stale", "add", "finish"} =>
         fork_apply[p] = local_apply[p]
    /\ pc[p] \in {"add", "finish"} => metas[new_snapshot[p]].log = fork_apply[p]
    /\ exit[p] = "success" => out_log[p] = fork_apply[p]

C3_Witness ==
  \E p \in SaveProcs :
    /\ exit[p] = "success"
    /\ out_log[p] = 1
    /\ apply_log_index > fork_apply[p]

\* C4: Save holds the write lock from LockWrite to the fork (or to the early
\* return), releases it exactly once on every exit path, and does not hold it
\* while it waits for the child, renames or updates the registry.
C4_UnlockOnce ==
  \A p \in SaveProcs :
    /\ pc[p] \in {"exist", "fork"} => write_lock = p /\ unlocks[p] = 0
    /\ pc[p] \in {"wait", "rename", "stale", "add", "finish"} =>
         write_lock # p /\ unlocks[p] = 1
    /\ (pc[p] = "idle" /\ exit[p] \in LockedExits) =>
         write_lock # p /\ unlocks[p] = 1

C4_Witness ==
  \E p \in SaveProcs :
    /\ exit[p] = "pipe" /\ unlocks[p] = 1
    /\ \E q \in SaveProcs \ {p} : write_lock = q

\* C5: when a Save call returns OK, the registry holds exactly one snapshot
\* of the index.
C5_OneAfterSave ==
  [][\A p \in SaveProcs :
       (pc[p] # "idle" /\ pc'[p] = "idle" /\ exit'[p] \in {"success", "exist"}) =>
         Cardinality({m \in registry' : metas'[m].idx = Idx}) = 1]_vars

\* C6: the registry never holds two objects of the same (index id, log id);
\* an AddSnapshot step inserts the object and goes on iff the key is absent,
\* and otherwise leaves the registry as it is and returns the collision.
C6_RegistryUnique ==
  /\ [](\A m, n \in registry :
          (metas[m].idx = metas[n].idx /\ metas[m].log = metas[n].log) => m = n)
  /\ [][\A p \in SaveProcs \cup DownloadProcs :
          (pc[p] = "add" /\ pc'[p] # "add") =>
            IF \E n \in registry : /\ metas[n].idx = metas[new_snapshot[p]].idx
                                   /\ metas[n].log = metas[new_snapshot[p]].log
              THEN registry' = registry /\ exit'[p] = "add_collision"
              ELSE registry' = registry \cup {new_snapshot[p]} /\ pc'[p] = "finish"]_vars

C6_Witness ==
  \E p \in SaveProcs \cup DownloadProcs :
    /\ exit[p] = "add_collision"
    /\ \E q \in (SaveProcs \cup DownloadProcs) \ {p} :
         pc[q] = "finish" /\ new_snapshot[q] \in registry

\* C7: IsExistSnapshot(i, l) is true iff the registry holds a snapshot of
\* index i whose log id is at least l; with none for i it is false for every l.
C7_IsExist ==
  \A i \in IndexIds, l \in 0..(MaxApply + 1) :
    IsExistSnapshot(registry, i, l) <=>
      \E m \in registry : metas[m].idx = i /\ metas[m].log >= l

C7_Witness ==
  /\ phase = "run"
  /\ Cardinality(OfIndex(registry, Idx)) = 2
  /\ OfIndex(registry, OtherIdx) = {}
  /\ IsExistSnapshot(registry, Idx, 2)
  /\ ~IsExistSnapshot(registry, OtherIdx, 0)

\* C8: the directory of a SnapshotMeta stays on disk as long as some holder
\* (registry, reader, a call's local) keeps the object, and is deleted in the
\* step in which the last holder drops it.
C8_DirLivesWithHolder ==
  [][\A m \in Held :
       /\ (m \in Held' /\ metas[m].path \in dirs) => metas[m].path \in dirs'
       /\ m \notin Held' => metas[m].path \notin dirs']_vars

\* C9 as stated: when a Save call that admitted a snapshot returns, exactly
\* one snapshot_* directory of the index is on disk and the tmp directory of
\* the call is not.
C9_OneDirAfterSave ==
  [][\A p \in SaveProcs :
       (pc[p] = "finish" /\ exit'[p] = "success") =>
         /\ Cardinality(SnapshotDirs(dirs', Idx)) = 1
         /\ tmp_snapshot_path[p] \notin dirs']_vars

\* C9 amended: when a Save call that admitted a snapshot returns, its tmp
\* directory is gone, every stale snapshot it collected is out of the
\* registry, the directory of a stale snapshot nobody holds any more is
\* deleted, and no directory is deleted all of whose SnapshotMeta objects are
\* still held.
C9_EvictionKeepsHeldDirs ==
  [][\A p \in SaveProcs :
       (pc[p] = "finish" /\ exit'[p] = "success") =>
         /\ tmp_snapshot_path[p] \notin dirs'
         /\ \A m \in stale_snapshots[p] :
              /\ m \notin registry'
              /\ m \notin Held' => metas[m].path \notin dirs'
         /\ \A d \in dirs :
              (\A m \in Held : metas[m].path = d => m \in Held') => d \in dirs']_vars

C9_Witness ==
  \E p \in SaveProcs, r \in readers :
    /\ pc[p] = "idle" /\ exit[p] = "success"
    /\ r.meta \notin registry
    /\ metas[r.meta].path \in dirs
    /\ Cardinality(SnapshotDirs(dirs, Idx)) = 2
    /\ \A d \in dirs : ~IsTmpName(d)

\* C10: the step in which fork() fails returns EINTERNAL, releases the write
\* lock, removes the tmp directory, creates no snapshot_* directory, leaves the
\* registry and the WAL truncate index as they were, and SnapshotDoing is false
\* after it.
C10_ForkFailure ==
  [][\A p \in SaveProcs :
       (pc[p] = "fork" /\ exit'[p] = "fork") =>
         /\ StatusOf(exit'[p]) = "EINTERNAL"
         /\ pc'[p] = "idle"
         /\ write_lock = p /\ write_lock' = NoLock /\ unlocks'[p] = 1
         /\ tmp_snapshot_path[p] \in dirs /\ tmp_snapshot_path[p] \notin dirs'
         /\ SnapshotDirs(dirs', Idx) = SnapshotDirs(dirs, Idx)
         /\ registry' = registry
         /\ truncate_log_index' = truncate_log_index
         /\ ~SnapshotDoing']_vars

C10_Witness ==
  \E p \in SaveProcs :
    /\ pc[p] = "idle" /\ exit[p] = "fork"
    /\ write_lock = NoLock
    /\ \A d \in dirs : ~IsTmpName(d)

\* C11: the step in which Save learns that the child exited with a non-zero
\* status or reported an errcode other than OK removes the tmp directory,
\* returns an error, and leaves the registry, every snapshot_* directory and
\* the WAL truncate index as they were.
C11_ChildFailure ==
  [][\A p \in SaveProcs :
       (pc[p] = "wait" /\ exit'[p] \in {"child_err", "child_crash"}) =>
         /\ pc'[p] = "idle"
         /\ StatusOf(exit'[p]) \in {"CHILD_ERRCODE", "EINTERNAL"}
         /\ tmp_snapshot_path[p] \in dirs /\ tmp_snapshot_path[p] \notin dirs'
         /\ registry' = registry
         /\ admitted' = admitted
         /\ {d \in dirs' : IsSnapshotName(d)} = {d \in dirs : IsSnapshotName(d)}
         /\ truncate_log_index' = truncate_log_index]_vars

C11_Witness ==
  \E p \in SaveProcs :
    /\ pc[p] = "idle" /\ exit[p] \in {"child_err", "child_crash"}
    /\ OfIndex(registry, Idx) # {}
    /\ \A d \in dirs : ~IsTmpName(d)

\* C13: the step in which a chunk request of DownloadSnapshotFile fails
\* deletes the tmp directory of the download, creates no snapshot_* directory
\* and admits nothing into the registry.
C13_ChunkFailure ==
  [][\A p \in DownloadProcs :
       (pc[p] = "copy" /\ exit'[p] = "chunk") =>
         /\ tmp_snapshot_path[p] \notin dirs'
         /\ {d \in dirs' : IsSnapshotName(d)} = {d \in dirs : IsSnapshotName(d)}
         /\ registry' = registry]_vars

\* C12: a DownloadSnapshotFile call that returns EVECTOR_SNAPSHOT_EXIST admits
\* nothing: it leaves the registry as it was and deletes the directory of no
\* registered snapshot.
C12_LoserLeavesWinner ==
  [][\A p \in InstallReceiveProcs :
       (pc'[p] = "idle" /\ exit'[p] # exit[p]
          /\ StatusOf(exit'[p]) = "EVECTOR_SNAPSHOT_EXIST") =>
         /\ registry' = registry
         /\ \A m \in registry : metas[m].path \in dirs => metas[m].path \in dirs']_vars

\* C14: when LaunchInstallSnapshot returns after it registered a reader, the
\* reader registry does not hold the reader id it allocated.
C14_ReaderDeleted ==
  [][\A p \in InstallProcs :
       (pc[p] \in {"rpc", "illegal"} /\ pc'[p] = "idle") =>
         \A r \in readers' : r.id # reader_id[p]]_vars

\* C15: when PullLastSnapshotFromPeers has returned, no peer holds a reader
\* that its HandlePullSnapshot registered for a probe or for the download
\* request of the pull.
C15_PullReadersReleased ==
  pull_pc = "done" => \A q \in OtherPeers : peer_readers[q] = {}

C17_AlreadyDoneIsSuccess ==
  [][/\ (followers_pc = "loop" /\ followers_pc' = "done"
           /\ \E i \in 1..Len(followers_log) : followers_log[i] = "INFO") =>
          followers_status' = "OK"
     /\ (pull_pc = "download" /\ pull_pc' = "done"
           /\ StatusOf(exit[PullProc]) = "EVECTOR_SNAPSHOT_EXIST") =>
          pull_status' = "OK"]_vars

\* Rebuild calls between the set of the switching flag and their return.
InSwitchWindow == {p \in RebuildProcs : rb_pc[p] \in {"replay2", "publish"}}

\* C18: of the RebuildVectorIndex calls that run at the same time for the
\* region and found an online index, at most one has passed the status
\* precondition.
C18_OnePassesPrecondition ==
  Cardinality({p \in RebuildProcs :
                 rb_pc[p] # "idle" /\ online_vector_index[p] # NoIndex}) <= 1

\* C19: the switching flag is set only while a running rebuild is between the
\* end of its first replay round and the end of its publish step, and a call
\* that returns from there, on success or on failure, leaves the flag false.
C19_SwitchingCleared ==
  /\ [](is_switching => InSwitchWindow # {})
  /\ [][\A p \in RebuildProcs :
          (p \in InSwitchWindow /\ rb_pc'[p] = "idle") => ~is_switching']_vars

C19_Witness ==
  /\ ~is_switching
  /\ InSwitchWindow = {}
  /\ \E p \in RebuildProcs : rb_pc[p] = "idle" /\ rb_exit[p] = "replay2"
  /\ \E p \in RebuildProcs : rb_pc[p] = "idle" /\ rb_exit[p] = "success"

\* C20: the index a successful rebuild publishes in the live map has an
\* apply_log_index of at least the last WAL index at the start of its catch-up
\* round, and no step taken while the switching flag is set advances the
\* apply_log_index of the index that is in the live map.
C20_PublishedCoversWal ==
  /\ [][\A p \in RebuildProcs :
          (rb_pc[p] = "publish" /\ rb_pc'[p] = "idle" /\ rb_exit'[p] = "success") =>
            /\ vector_indexs' = vector_index[p]
            /\ vi_apply'[vector_indexs'] >= rb_x[p]]_vars
  /\ [][(is_switching /\ vector_indexs # NoIndex /\ vector_indexs' = vector_indexs) =>
          vi_apply'[vector_indexs] = vi_apply[vector_indexs]]_vars

C20_Witness ==
  /\ \E p \in RebuildProcs : rb_pc[p] = "idle" /\ rb_exit[p] = "success"
  /\ vector_indexs # NoIndex
  /\ vector_indexs > 1
  /\ vi_apply[vector_indexs] = wal_last
  /\ wal_last > 1

\* Content of an index after the requests of the entries are applied one at a
\* time, every vector and every delete on its own, in log order.
RECURSIVE ApplyInOrder(_, _)
ApplyInOrder(content, log_entrys) ==
  IF log_entrys = <<>> THEN content
  ELSE LET request == Head(log_entrys)
       IN  ApplyInOrder(IF request.cmd_type = "VECTOR_ADD"
                          THEN Upsert(content, request.vectors)
                          ELSE Delete(content, request.ids),
                        Tail(log_entrys))

\* C22: after ReplayWalToVectorIndex the index content is the content that
\* applying the entries from start_log_id on one at a time, in log order, gives,
\* and apply_log_index is the index of the last entry replayed, or what it was
\* when no entry was replayed.
C22_ReplayInLogOrder ==
  replay_out # NoReplay =>
    LET log_entrys == GetEntrys(replay_in.wal, replay_in.start_log_id)
    IN  /\ replay_out.content = ApplyInOrder(replay_in.content, log_entrys)
        /\ replay_out.apply = IF log_entrys = <<>> THEN replay_in.apply
                               ELSE Len(replay_in.wal)

\* An id added by entry 1 and deleted by entry 2, both replayed, with the add
\* still in the batch when the delete is reached.
C22_Witness ==
  /\ replay_out # NoReplay
  /\ replay_in.start_log_id = 1
  /\ Len(replay_in.wal) = 2
  /\ replay_in.wal[1].cmd_type = "VECTOR_ADD"
  /\ Len(replay_in.wal[1].vectors) < BatchSize
  /\ replay_in.wal[1].vectors[1][1] = 2
  /\ replay_in.wal[2].cmd_type = "VECTOR_DELETE"
  /\ 2 \in replay_in.wal[2].ids
  /\ replay_out.content[2] = NoVector
  /\ replay_out.apply = 2

\* What C23 promises of a finished call.
LoadedFromSnapshot ==
  /\ load.status = "OK"
  /\ ~load.scanned
  /\ load.snapshot_log_index = load.last_snapshot
  /\ vi_apply[load.new_vector_index] = Max({load.last_snapshot, wal_last})
  /\ vector_indexs = load.new_vector_index
  /\ vi_status[load.new_vector_index] = "NORMAL"

\* C23 as stated: whenever LoadVectorIndexSnapshot loaded the last snapshot,
\* the finished LoadOrBuildVectorIndex call returned OK without scanning the
\* store and published a NORMAL index whose snapshot_log_index is the
\* snapshot's log id and whose apply_log_index is that log id advanced to the
\* end of the WAL.
C23_LoadedSnapshotPublished ==
  (load_pc = "done" /\ load.last_snapshot > 0) => LoadedFromSnapshot

\* C23 amended: the same, when LoadVectorIndexSnapshot loaded the last snapshot
\* and ReplayWalToVectorIndex returned OK.
C23_LoadedAndReplayedPublished ==
  (load_pc = "done" /\ load.last_snapshot > 0 /\ load.replayed) => LoadedFromSnapshot

\* A snapshot at log id 1 was loaded and the WAL tail up to 2 replayed.
C23_Witness ==
  /\ load_pc = "done" /\ load.replayed
  /\ load.last_snapshot = 1
  /\ vi_apply[load.new_vector_index] = 2

\* C24: every ParallelLoadOrBuildVectorIndex call terminates: for every region
\* list and every concurrency all its tasks settle and the call returns.
C24_Terminates == <>(par_pc = "done")

\* C25: a round of the sweep on a region whose index is NORMAL calls Rebuild
\* alone when the index needs a rebuild, the snapshot writer alone when it
\* does not but needs a save, and nothing otherwise; on a region whose index
\* has another status, or that has no index, it calls nothing and leaves the
\* status as it was.
C25_ScrubOnlyNormal ==
  [][scrub_offset' = scrub_offset + 1 =>
       LET k == scrub_offset'
           region == scrub_regions[k]
           called == SubSeq(scrub_calls', Len(scrub_calls) + 1, Len(scrub_calls'))
       IN  /\ SubSeq(scrub_calls', 1, Len(scrub_calls)) = scrub_calls
           /\ IF region.has_index /\ region.status = "NORMAL"
                THEN called = (IF region.need_rebuild THEN <<(<<k, "rebuild">>)>>
                               ELSE IF region.need_save THEN <<(<<k, "save">>)>>
                               ELSE <<>>)
                ELSE called = <<>> /\ scrub_regions'[k] = region]_vars

\* A sweep that met an index needing both, one needing a save only, and one
\* that is not NORMAL.
C25_Witness ==
  /\ scrub_pc = "done"
  /\ Len(scrub_regions) = 2
  /\ scrub_regions[1].has_index /\ scrub_regions[1].need_rebuild
  /\ scrub_regions[1].need_save
  /\ scrub_regions[2].has_index /\ scrub_regions[2].status = "SNAPSHOTTING"
  /\ scrub_regions[2].need_save
  /\ scrub_calls = <<(<<1, "rebuild">>)>>

\* The uris of the form remote://<host>:<port>/<reader_id> with a decimal
\* reader id: here the scheme, two slashes, an address, a port and one digit.
WellFormedUri(str) ==
  /\ Len(str) = 8
  /\ SubSeq(str, 1, 5) = <<"r", "/", "/", "h", ":">>
  /\ IsDigit(str[6]) /\ str[7] = "/" /\ IsDigit(str[8])

\* C26: a uri that is not of the form remote://<host>:<port>/<reader_id>
\* parses to the zero endpoint and reader id 0, and DownloadSnapshotFile
\* returns EINTERNAL for it leaving disk and registry as they were; the uri
\* remote://10.0.0.1:7/9 parses to (10.0.0.1:7, 9).
C26_MalformedUriRejected ==
  /\ (uri_pc # "idle" /\ ~WellFormedUri(uri)) =>
        /\ uri_parsed = [reader_id |-> 0, endpoint |-> ZeroEndPoint]
        /\ uri_pc \in {"parsed", "EINTERNAL"}
        /\ dirs = {} /\ registry = {}
  /\ (uri_pc # "idle" /\ uri = <<"r", "/", "/", "h", ":", "7", "/", "9">>) =>
        uri_parsed = [reader_id |-> 9, endpoint |-> [ip |-> "10.0.0.1", port |-> 7]]

\* C27: the WAL truncate index changes only in the last step of a Save call
\* that returns success, after that call's AddSnapshot admitted a snapshot
\* whose log id is the call's apply_log_index, and it becomes that log id; no
\* error return and no early return changes it.
C27_TruncateAfterAdmit ==
  [][truncate_log_index' # truncate_log_index =>
       \E p \in SaveProcs :
         /\ pc[p] = "finish" /\ pc'[p] = "idle" /\ exit'[p] = "success"
         /\ truncate_log_index' = local_apply[p]
         /\ new_snapshot[p] # NoMeta
         /\ metas[new_snapshot[p]].log = local_apply[p]
         /\ \E k \in 1..Len(admitted) : admitted[k] = local_apply[p]]_vars

\* A Save that admitted snapshot 2 and returned has set the truncate index.
C27_Witness ==
  /\ truncate_log_index = 2
  /\ \E p \in SaveProcs : exit[p] = "success" /\ out_log[p] = 2
  /\ \E m \in registry : metas[m].log = 2 /\ metas[m].idx = Idx

\* Exit paths of Save that come after the tmp directory was prepared.
TmpErrorExits == {"pipe", "fork", "child_err", "child_crash", "meta_open", "rename",
                  "init", "add_collision"}

\* C28: a Save call that returns an error after it prepared its tmp directory
\* leaves no directory under its tmp path on disk.
C28_ErrorRemovesTmp ==
  [][\A p \in SaveProcs :
       (pc[p] # "idle" /\ pc'[p] = "idle" /\ exit'[p] \in TmpErrorExits) =>
         tmp_snapshot_path[p] \notin dirs']_vars

\* C29: after the tmp-directory step of Save and of Download the directory
\* under the call's tmp path exists, whether or not the path existed before.
C29_TmpExistsAfterPrepare ==
  [][\A p \in SaveProcs \cup DownloadProcs :
       (tmp_snapshot_path[p] = NoPath /\ tmp_snapshot_path'[p] # NoPath) =>
         tmp_snapshot_path'[p] \in dirs']_vars

\* C30: when the registry has a snapshot of the index whose log id is at least
\* the apply_log_index the call read, the next step of Save is its return: the
\* status is OK, the write lock is released, no tmp path was drawn and no child
\* forked, registry, directories and WAL truncate index are as before, and the
\* out-parameter is that apply_log_index.
C30_EarlyReturnFrame ==
  [][\A p \in SaveProcs :
       (/\ pc[p] = "exist" /\ pc'[p] # "exist"
        /\ \E m \in registry : metas[m].idx = Idx /\ metas[m].log >= local_apply[p]) =>
         /\ pc'[p] = "idle" /\ StatusOf(exit'[p]) = "OK"
         /\ write_lock' # p /\ unlocks'[p] = 1
         /\ clock' = clock /\ fork_apply' = fork_apply
         /\ registry' = registry /\ dirs' = dirs
         /\ truncate_log_index' = truncate_log_index
         /\ out_log'[p] = local_apply[p]]_vars

\* A Save that returned early at apply_log_index 1 while the registry holds
\* snapshot 2.
C30_Witness ==
  \E p \in SaveProcs :
    /\ exit[p] = "exist" /\ out_log[p] = 1
    /\ \E m \in registry : metas[m].idx = Idx /\ metas[m].log = 2

C32_ChunkedCopy ==
  /\ [](ck_pc = "closed" => ck_ofile = ck_file)
  /\ [](ck_pc = "loop" => ck_ofile = SubSeq(ck_file, 1, ck_offset))
  /\ <>(ck_pc \in {"closed", "failed"})

\* A file whose length is a multiple of the chunk size was copied from a peer
\* that sets eof on the short read.
C32_Witness ==
  /\ ck_pc = "closed"
  /\ Len(ck_file) > 0
  /\ Len(ck_file) % kFileTransportChunkSize = 0
  /\ ck_eof = "short_read"
  /\ ck_ofile = ck_file
  /\ ck_offset = Len(ck_file)

\* C33: the directory of every SnapshotMeta in the registry exists on disk.
C33_RegisteredDirExists == \A m \in registry : metas[m].path \in dirs

\* C34: the greatest log id in the registry of the index (GetLastSnapshot)
\* never decreases, and the registry of the index never becomes empty again.
C34_LastSnapshotMonotonic ==
  [][LET last == GetLastSnapshot(registry, Idx)
         last_after == GetLastSnapshot(registry', Idx)
     IN  last # NoMeta =>
           /\ last_after # NoMeta
           /\ metas'[last_after].log >= metas[last].log]_vars

\* C35: the WAL truncate index never decreases, and it never exceeds the
\* greatest snapshot log id in the registry of the index.
C35_TruncateBelowLastSnapshot ==
  /\ [][truncate_log_index' >= truncate_log_index]_vars
  /\ [](LET last == GetLastSnapshot(registry, Idx)
        IN  truncate_log_index <= (IF last = NoMeta THEN 0 ELSE metas[last].log))

\* C36: no step of a Save call writes snapshot_log_index a value that is not
\* the log id of a snapshot in the registry, and the step in which a call
\* returns an error does not write it at all.
C36_SnapshotLogIndexFrame ==
  [][/\ snapshot_log_index' # snapshot_log_index
          => \E m \in registry' : metas'[m].log = snapshot_log_index'
     /\ \A p \in SaveProcs :
          (pc[p] # "idle" /\ pc'[p] = "idle" /\ StatusOf(exit'[p]) # "OK")
             => snapshot_log_index' = snapshot_log_index]_vars

\* C39: after every step in which the running node admits a snapshot (by its
\* own writer, by an install or by a pull), the greatest registered log id is
\* at most apply_log_index, so that the lag the scrubber computes in 64-bit
\* unsigned arithmetic is the difference itself.
C39_LagNeverWraps ==
  [][(phase = "run" /\ registry' \ registry # {}) =>
       /\ last_snaphsot_log_id' <= apply_log_index'
       /\ last_save_log_behind' = ToUint64(apply_log_index' - last_snaphsot_log_id')]_vars

\* C40: no two workers run LoadOrBuildVectorIndex for the same region at the
\* same time, and a worker that loaded a region has claimed that region: the
\* shared offset is past it, so no worker gets the region again.
C40_OneWorkerPerRegion ==
  /\ [](\A w1, w2 \in Workers :
          (w1 # w2 /\ task_pc[w1] = "load" /\ task_pc[w2] = "load")
             => task_offset[w1] # task_offset[w2])
  /\ [][\A w \in Workers :
          (task_pc[w] = "load" /\ task_pc'[w] = "fetch")
             => param_offset' > task_offset[w]]_vars

\* C38: DELETE is terminal: the status of an index object that is DELETE
\* stays DELETE in every step.
C38_DeleteIsTerminal ==
  [][\A i \in DOMAIN vi_status :
       vi_status[i] = "DELETE" => vi_status'[i] = "DELETE"]_vars

\* C37: a RebuildVectorIndex call that failed after it marked the online
\* index REBUILDING does not leave it so for ever: the region comes back to a
\* state in which CheckRebuildStatus admits a rebuild, and the wait loop of
\* AsyncRebuildVectorIndex exits.
C37_RebuildingNotForever ==
  /\ ((\E p \in RebuildProcs : rb_exit[p] \in {"build", "save", "replay1", "replay2"})
        /\ vector_indexs # NoIndex /\ vi_status[vector_indexs] = "REBUILDING")
       ~> (CheckRebuildStatus(vector_indexs) = "OK")
  /\ (ar_pc = "wait") ~> (ar_pc # "wait")

\* C21: when the live-map entry a rebuild started from was deleted by
\* DeleteVectorIndex before the rebuild publishes, and the map has no entry at
\* the publish step, the rebuild returns EINTERNAL and the map still has no
\* entry.
C21_PublishFailsAfterDelete ==
  [][\A p \in RebuildProcs :
       (rb_pc[p] = "publish" /\ rb_pc'[p] = "idle"
          /\ online_vector_index[p] # NoIndex
          /\ vi_status[online_vector_index[p]] = "DELETE"
          /\ vector_indexs = NoIndex) =>
         /\ rb_exit'[p] = "publish"
         /\ vector_indexs' = NoIndex]_vars

====
